---- MODULE Spec2Model ----
(***************************************************************************)
(* Model of the DRAGEN CNV-metrics and coverage-metrics modules of MultiQC *)
(* (multiqc/modules/dragen/cnv_metrics.py and coverage_metrics.py).        *)
(*                                                                         *)
(* Text is modelled by TLA+ strings read character by character; the       *)
(* regular expressions, the metric-id normalisation and Python's int() and *)
(* float() are recognisers over those characters.                          *)
(***************************************************************************)
EXTENDS Integers, Sequences, FiniteSets, TLC

(***************************************************************************)
(* Characters and strings                                                  *)
(***************************************************************************)

Ch(s, i) == SubSeq(s, i, i)

\* Characters matched by \s in the regular expressions and stripped by
\* int() and float().
Whitespace == {" ", "\t", "\n", "\r", "\f"}

Digits == {"0", "1", "2", "3", "4", "5", "6", "7", "8", "9"}

DigitVal(c) ==
    CASE c = "0" -> 0 [] c = "1" -> 1 [] c = "2" -> 2 [] c = "3" -> 3
      [] c = "4" -> 4 [] c = "5" -> 5 [] c = "6" -> 6 [] c = "7" -> 7
      [] c = "8" -> 8 [] c = "9" -> 9

UpperChars == "ABCDEFGHIJKLMNOPQRSTUVWXYZ"
LowerChars == "abcdefghijklmnopqrstuvwxyz"

\* str.lower() on one character.
LowerCh(c) ==
    IF \E i \in 1..Len(UpperChars) : Ch(UpperChars, i) = c
    THEN Ch(LowerChars, CHOOSE i \in 1..Len(UpperChars) : Ch(UpperChars, i) = c)
    ELSE c

RECURSIVE Lower(_)
Lower(s) == IF s = "" THEN "" ELSE LowerCh(Head(s)) \o Lower(Tail(s))

RECURSIVE LStrip(_)
LStrip(s) == IF s # "" /\ Head(s) \in Whitespace THEN LStrip(Tail(s)) ELSE s

RECURSIVE RStrip(_)
RStrip(s) ==
    IF s # "" /\ Ch(s, Len(s)) \in Whitespace
    THEN RStrip(SubSeq(s, 1, Len(s) - 1))
    ELSE s

\* str.strip()
Strip(s) == RStrip(LStrip(s))

\* re.sub("\s+", " ", s): every maximal run of whitespace becomes one space.
RECURSIVE CollapseWS(_)
CollapseWS(s) ==
    IF s = "" THEN ""
    ELSE IF Head(s) \in Whitespace
         THEN " " \o CollapseWS(LStrip(s))
         ELSE Head(s) \o CollapseWS(Tail(s))

\* re.search("^\s*$", line)
IsBlank(s) == \A i \in 1..Len(s) : Ch(s, i) \in Whitespace

\* s.startswith(p) / s.endswith(p)
StartsWith(s, p) == Len(s) >= Len(p) /\ SubSeq(s, 1, Len(p)) = p
EndsWith(s, p) == Len(s) >= Len(p) /\ SubSeq(s, Len(s) - Len(p) + 1, Len(s)) = p

Contains(s, c) == \E i \in 1..Len(s) : Ch(s, i) = c

\* The comma-free fields of a line, in order: the text between the commas.
RECURSIVE Fields(_)
Fields(s) ==
    IF ~Contains(s, ",") THEN <<s>>
    ELSE LET i == CHOOSE k \in 1..Len(s) :
                     Ch(s, k) = "," /\ \A j \in 1..(k - 1) : Ch(s, j) # ","
         IN  <<SubSeq(s, 1, i - 1)>> \o Fields(SubSeq(s, i + 1, Len(s)))

(***************************************************************************)
(* Typed metric values: Python int, float and str                          *)
(***************************************************************************)

\* A float is the decimal number m * 10^e, normalised so that m has no
\* trailing zero; s names the non-finite floats ("inf", "-inf", "nan").
IntVal(n) == [tag |-> "int", m |-> n, e |-> 0, s |-> ""]
FloatVal(m, e) == [tag |-> "float", m |-> m, e |-> e, s |-> ""]
FloatSpecial(name) == [tag |-> "float", m |-> 0, e |-> 0, s |-> name]
StrVal(text) == [tag |-> "str", m |-> 0, e |-> 0, s |-> text]

\* One group of decimal digits as int() and float() accept it: digits, with
\* single underscores allowed between digits.
IsDigitGroup(b) ==
    /\ b # ""
    /\ \A i \in 1..Len(b) : Ch(b, i) \in Digits \cup {"_"}
    /\ Ch(b, 1) # "_"
    /\ Ch(b, Len(b)) # "_"
    /\ \A i \in 1..(Len(b) - 1) : ~(Ch(b, i) = "_" /\ Ch(b, i + 1) = "_")

RECURSIVE DropUnderscores(_)
DropUnderscores(b) ==
    IF b = "" THEN ""
    ELSE IF Head(b) = "_" THEN DropUnderscores(Tail(b))
         ELSE Head(b) \o DropUnderscores(Tail(b))

RECURSIVE DigitsValue(_)
DigitsValue(b) ==
    IF b = "" THEN 0
    ELSE 10 * DigitsValue(SubSeq(b, 1, Len(b) - 1)) + DigitVal(Ch(b, Len(b)))

HasSign(t) == t # "" /\ Head(t) \in {"+", "-"}
Unsigned(t) == IF HasSign(t) THEN Tail(t) ELSE t
SignOf(t) == IF t # "" /\ Head(t) = "-" THEN -1 ELSE 1

\* int(s) succeeds (does not raise ValueError).
IsIntLiteral(s) == IsDigitGroup(Unsigned(Strip(s)))

\* int(s), for a string on which it succeeds.
PyInt(s) ==
    LET t == Strip(s)
    IN  SignOf(t) * DigitsValue(DropUnderscores(Unsigned(t)))

\* The position of the exponent marker of a float literal, 0 when absent.
ExpPos(b) ==
    IF \E i \in 1..Len(b) : Ch(b, i) \in {"e", "E"}
    THEN CHOOSE i \in 1..Len(b) :
             Ch(b, i) \in {"e", "E"} /\ \A j \in 1..(i - 1) : Ch(b, j) \notin {"e", "E"}
    ELSE 0

Mantissa(b) == IF ExpPos(b) = 0 THEN b ELSE SubSeq(b, 1, ExpPos(b) - 1)
Exponent(b) == IF ExpPos(b) = 0 THEN "" ELSE SubSeq(b, ExpPos(b) + 1, Len(b))

PointPos(mt) ==
    IF Contains(mt, ".")
    THEN CHOOSE i \in 1..Len(mt) : Ch(mt, i) = "." /\ \A j \in 1..(i - 1) : Ch(mt, j) # "."
    ELSE 0

IntPart(mt) == IF PointPos(mt) = 0 THEN mt ELSE SubSeq(mt, 1, PointPos(mt) - 1)
FracPart(mt) == IF PointPos(mt) = 0 THEN "" ELSE SubSeq(mt, PointPos(mt) + 1, Len(mt))

\* digits | digits "." [digits] | "." digits
IsMantissa(mt) ==
    /\ IntPart(mt) = "" \/ IsDigitGroup(IntPart(mt))
    /\ FracPart(mt) = "" \/ IsDigitGroup(FracPart(mt))
    /\ IntPart(mt) # "" \/ FracPart(mt) # ""

IsDecimalFloat(b) ==
    /\ IsMantissa(Mantissa(b))
    /\ ExpPos(b) = 0 \/ IsDigitGroup(Unsigned(Exponent(b)))

NonFinite == {"inf", "infinity", "nan"}

\* float(s) succeeds (does not raise ValueError).
IsFloatLiteral(s) ==
    LET b == Unsigned(Strip(s))
    IN  Lower(b) \in NonFinite \/ IsDecimalFloat(b)

RECURSIVE Normalise(_, _)
Normalise(m, e) ==
    IF m = 0 THEN FloatVal(0, 0)
    ELSE IF m % 10 = 0 THEN Normalise(m \div 10, e + 1)
         ELSE FloatVal(m, e)

\* float(s), for a string on which it succeeds.
PyFloat(s) ==
    LET t  == Strip(s)
        b  == Unsigned(t)
        mt == Mantissa(b)
        fr == DropUnderscores(FracPart(mt))
        ex == Exponent(b)
        ev == IF ex = "" THEN 0
              ELSE SignOf(ex) * DigitsValue(DropUnderscores(Unsigned(ex)))
    IN  IF Lower(b) = "nan" THEN FloatSpecial("nan")
        ELSE IF Lower(b) \in NonFinite
             THEN FloatSpecial(IF SignOf(t) = -1 THEN "-inf" ELSE "inf")
             ELSE Normalise(SignOf(t) * DigitsValue(DropUnderscores(IntPart(mt)) \o fr),
                            ev - Len(fr))

(***************************************************************************)
(* The static catalog of known metrics and the header constructors         *)
(***************************************************************************)

\* Suffix of the key under which the second value of a line is stored.
V2 == "(second value)"

SEX_GENOTYPER_SECTION == "SEX GENOTYPER"
CNV_SUMMARY_SECTION == "CNV SUMMARY"

\* First order priority given to the headers of panel samples.
RESERVED_START == 100

\* METRICS[SEX_GENOTYPER_SECTION].  A header keeps its title, description and
\* order priority; an order priority p.q is the pair <<p, q>>, and <<>> when
\* the catalog sets none.
SexGenotyperMetrics ==
    "karyotype" :>
        [title |-> "Kar", description |-> "Estimated sex karyotype for the case sample.", order_priority |-> <<0, 0>>] @@
    "confidence" :>
        [title |-> "KarConf", description |-> "Confidence metric ranging from 0.0 to 1.0. If the case sample sex is specified, this metric is 0.0.", order_priority |-> <<1, 0>>]

\* METRICS[CNV_SUMMARY_SECTION].  Titles built from config.base_count_prefix
\* carry its default, "Mb".
CnvSummaryMetrics ==
    "bases in reference genome" :>
        [title |-> "Mb bases", description |-> "Bases (millions) in reference genome in use.", order_priority |-> <<>>] @@
    "average alignment coverage over genome" :>
        [title |-> "AvgCov", description |-> "Average alignment coverage over genome.", order_priority |-> <<2, 0>>] @@
    "number of alignment records" :>
        [title |-> "M Aln records", description |-> "Number (millions) of alignment records processed.", order_priority |-> <<3, 0>>] @@
    "coverage uniformity" :>
        [title |-> "CovUnif", description |-> "Coverage uniformity.", order_priority |-> <<4, 0>>] @@
    "number of target intervals" :>
        [title |-> "Trg intervals", description |-> "Number of target intervals.", order_priority |-> <<5, 0>>] @@
    "number of segments" :>
        [title |-> "Segments", description |-> "Number of segments.", order_priority |-> <<6, 0>>] @@
    "number of filtered records (total)" :>
        [title |-> "M Total", description |-> "Number (millions) of filtered records (total).", order_priority |-> <<7, 0>>] @@
    "number of filtered records (total)(second value)" :>
        [title |-> "Total%", description |-> "Percentage of filtered records (total).", order_priority |-> <<7, 1>>] @@
    "number of filtered records (duplicates)" :>
        [title |-> "Duplicates", description |-> "Number of filtered records (due to duplicates).", order_priority |-> <<7, 2>>] @@
    "number of filtered records (duplicates)(second value)" :>
        [title |-> "Duplicates%", description |-> "Percentage of filtered records (due to duplicates).", order_priority |-> <<7, 3>>] @@
    "number of filtered records (mapq)" :>
        [title |-> "M MAPQ", description |-> "Number (millions) of filtered records (due to MAPQ).", order_priority |-> <<7, 4>>] @@
    "number of filtered records (mapq)(second value)" :>
        [title |-> "MAPQ%", description |-> "Percentage of filtered records (due to MAPQ).", order_priority |-> <<7, 5>>] @@
    "number of filtered records (unmapped)" :>
        [title |-> "M Unmapped", description |-> "Number (millions) of filtered records (due to being unmapped).", order_priority |-> <<7, 6>>] @@
    "number of filtered records (unmapped)(second value)" :>
        [title |-> "Unmapped%", description |-> "Percentage of filtered records (due to being unmapped).", order_priority |-> <<7, 7>>] @@
    "number of amplifications" :>
        [title |-> "Amplifs", description |-> "Number of amplifications.", order_priority |-> <<8, 0>>] @@
    "number of passing amplifications" :>
        [title |-> "Amplifs PASS", description |-> "Number of PASS amplifications.", order_priority |-> <<8, 1>>] @@
    "number of passing amplifications(second value)" :>
        [title |-> "Amplifs PASS%", description |-> "Percentage of PASS amplifications.", order_priority |-> <<8, 2>>] @@
    "number of deletions" :>
        [title |-> "Deletions", description |-> "Number of deletions.", order_priority |-> <<9, 0>>] @@
    "number of passing deletions" :>
        [title |-> "Deletions PASS", description |-> "Number of PASS deletions.", order_priority |-> <<9, 1>>] @@
    "number of passing deletions(second value)" :>
        [title |-> "Deletions PASS%", description |-> "Percentage of PASS deletions.", order_priority |-> <<9, 2>>] @@
    "number of de novo calls" :>
        [title |-> "de Novo", description |-> "", order_priority |-> <<10, 0>>] @@
    "number of passing de novo calls" :>
        [title |-> "de Novo PASS", description |-> "Number of passing de novo calls.", order_priority |-> <<10, 1>>] @@
    "number of passing de novo calls(second value)" :>
        [title |-> "de Novo PASS%", description |-> "Percentage of passing de novo calls.", order_priority |-> <<10, 2>>]

METRICS(section) ==
    IF section = SEX_GENOTYPER_SECTION THEN SexGenotyperMetrics ELSE CnvSummaryMetrics

\* make_header whose fallback leaves title and description empty.
make_header_untitled(metric, section) ==
    IF metric \in DOMAIN METRICS(section)
    THEN METRICS(section)[metric]
    ELSE [title |-> "", description |-> "", order_priority |-> <<>>]

\* make_header: the catalog entry of a known metric; otherwise the metric
\* itself as title and description.
make_header(metric, section) ==
    IF metric \in DOMAIN METRICS(section)
    THEN METRICS(section)[metric]
    ELSE [title |-> metric, description |-> metric, order_priority |-> <<>>]

\* make_panel_headers: the two headers of a panel sample, numbered from the
\* counter; the caller advances the counter by two.
make_panel_headers(sample, counter) ==
    << [title |-> "Kar " \o sample,
        description |-> "Estimated sex karyotype for the panel sample " \o sample,
        order_priority |-> <<counter, 0>>],
       [title |-> "KarConf " \o sample,
        description |-> "Confidence metric for the panel sample " \o sample
                        \o " ranging from 0.0 to 1.0. If the sample sex is specified, this metric is 0.0.",
        order_priority |-> <<counter + 1, 0>>] >>

\* make_metric_id that keeps the letter case of the metric.
make_metric_id_cased(metric) == CollapseWS(Strip(metric))

\* make_metric_id
make_metric_id(metric) == Lower(Strip(CollapseWS(metric)))

(***************************************************************************)
(* File-name and line grammars of the CNV parser                           *)
(***************************************************************************)

CnvSuffix == ".cnv_metrics.csv"

\* FILE_RGX = ^([^.]+)\.cnv_metrics\.csv$
FileMatches(fn) ==
    /\ Len(fn) > Len(CnvSuffix)
    /\ EndsWith(fn, CnvSuffix)
    /\ ~Contains(SubSeq(fn, 1, Len(fn) - Len(CnvSuffix)), ".")

\* group(1) of FILE_RGX
FileSample(fn) == SubSeq(fn, 1, Len(fn) - Len(CnvSuffix))

\* LineMatches that reads the section literal without regard to letter case
\* and to surrounding or repeated whitespace.
LineMatchesAnyCase(line) ==
    LET f == Fields(line)
    IN  /\ Len(f) \in {4, 5}
        /\ Lower(Strip(CollapseWS(f[1]))) \in {"sex genotyper", "cnv summary"}
        /\ f[2] = ""
        /\ f[3] # ""
        /\ f[4] # ""

\* LineMatches that reads the first five fields of a line and lets any
\* further text go.
LineMatchesTruncating(line) ==
    LET f == Fields(line)
    IN  /\ Len(f) >= 4
        /\ f[1] \in {SEX_GENOTYPER_SECTION, CNV_SUMMARY_SECTION}
        /\ f[2] = ""
        /\ f[3] # ""
        /\ f[4] # ""

\* LINE_RGX = ^(SEX GENOTYPER|CNV SUMMARY),,([^,]+),([^,]+),?([^,]*)$
\* read on the comma-free fields of the line: the section literal, an empty
\* field, a non-empty metric, a non-empty first value and at most one more
\* field.
LineMatches(line) ==
    LET f == Fields(line)
    IN  /\ Len(f) \in {4, 5}
        /\ f[1] \in {SEX_GENOTYPER_SECTION, CNV_SUMMARY_SECTION}
        /\ f[2] = ""
        /\ f[3] # ""
        /\ f[4] # ""

\* groups 1..4 of LINE_RGX on a matching line
LineGroups(line) ==
    LET f == Fields(line)
    IN  [section |-> f[1], metric |-> f[3], value1 |-> f[4],
         value2 |-> IF Len(f) = 5 THEN f[5] ELSE ""]

\* CoerceValue1 with float() tried before int().
CoerceValue1FloatFirst(v) ==
    IF IsFloatLiteral(v) THEN PyFloat(v)
    ELSE IF IsIntLiteral(v) THEN IntVal(PyInt(v))
         ELSE StrVal(v)

\* CoerceValue2 with int() tried before float().
CoerceValue2IntFirst(v) ==
    IF IsIntLiteral(v) THEN IntVal(PyInt(v))
    ELSE IF IsFloatLiteral(v) THEN PyFloat(v)
         ELSE StrVal(v)

\* Coercion of the first value of a line: int, else float, else the text.
CoerceValue1(v) ==
    IF IsIntLiteral(v) THEN IntVal(PyInt(v))
    ELSE IF IsFloatLiteral(v) THEN PyFloat(v)
         ELSE StrVal(v)

\* Coercion of the second value of a line: float, else int, else the text.
CoerceValue2(v) ==
    IF IsFloatLiteral(v) THEN PyFloat(v)
    ELSE IF IsIntLiteral(v) THEN IntVal(PyInt(v))
         ELSE StrVal(v)

(***************************************************************************)
(* Dictionaries                                                            *)
(***************************************************************************)

\* The empty dict.
Empty == <<>>

\* d.get(k, default)
Get(d, k, default) == IF k \in DOMAIN d THEN d[k] ELSE default

\* d[k] = v
Put(d, k, v) == [x \in DOMAIN d \cup {k} |-> IF x = k THEN v ELSE d[x]]

\* InsertHeader without the membership test.
InsertHeaderOverwrite(headers, key, header) == Put(headers, key, header)

\* if key not in cnv_headers: cnv_headers[key] = header
InsertHeader(headers, key, header) ==
    IF key \in DOMAIN headers THEN headers ELSE Put(headers, key, header)

\* LogInvalidFileName that files the name under itself, not its directory.
LogInvalidFileNameByName(log, root, fn) ==
    [log EXCEPT !.invalid_file_names = Put(@, fn, Append(Get(@, fn, <<>>), fn))]

\* log_data["invalid_file_names"][root].append(fn)
LogInvalidFileName(log, root, fn) ==
    [log EXCEPT !.invalid_file_names =
        Put(@, root, Append(Get(@, root, <<>>), fn))]

\* LogInvalidLine that replaces the list of the file by the one line.
LogInvalidLineReplace(log, root, fn, line) ==
    [log EXCEPT !.invalid_file_lines =
        Put(@, root, Put(Get(@, root, Empty), fn, <<line>>))]

\* log_data["invalid_file_lines"][root][fn].append(line)
LogInvalidLine(log, root, fn, line) ==
    [log EXCEPT !.invalid_file_lines =
        Put(@, root, Put(Get(@, root, Empty), fn,
                         Append(Get(Get(@, root, Empty), fn, <<>>), line)))]

\* log_data["unusual_values"][root][fn][metric] = value
LogUnusualValue(log, root, fn, metric, value) ==
    [log EXCEPT !.unusual_values =
        Put(@, root, Put(Get(@, root, Empty), fn,
                         Put(Get(Get(@, root, Empty), fn, Empty), metric, value)))]

(***************************************************************************)
(* One line of a file, as cnv_metrics_parser handles it                    *)
(***************************************************************************)

\* What the parser reads off one line: whether LINE_RGX matches it, its four
\* groups, the metric id and the coerced values.
LineInfo(line) ==
    LET m == LineMatches(line)
        g == IF m THEN LineGroups(line)
             ELSE [section |-> "", metric |-> "", value1 |-> "", value2 |-> ""]
    IN  [matches |-> m, blank |-> IsBlank(line), section |-> g.section,
         metric |-> g.metric, metric_id |-> make_metric_id(g.metric),
         value1 |-> g.value1, value2 |-> g.value2,
         v1 |-> CoerceValue1(g.value1), v2 |-> CoerceValue2(g.value2)]

\* SummaryData that stores the second value under the key of the first.
SummaryDataSameKey(data, g) ==
    LET d1 == Put(data, g.metric_id, g.v1)
    IN  IF g.value2 # "" THEN Put(d1, g.metric_id, g.v2) ELSE d1

\* SummaryData that drops the second-value entry of the key when the line
\* carries no second value.
SummaryDataNoStale(data, g) ==
    LET d1 == Put(data, g.metric_id, g.v1)
    IN  IF g.value2 # ""
        THEN Put(d1, g.metric_id \o V2, g.v2)
        ELSE [k \in DOMAIN d1 \ {g.metric_id \o V2} |-> d1[k]]

\* The record after a CNV SUMMARY line g.
SummaryData(data, g) ==
    LET d1 == Put(data, g.metric_id, g.v1)
    IN  IF g.value2 # ""
        THEN Put(d1, g.metric_id \o V2, g.v2)
        ELSE d1

\* SummaryHeaders without the registration of the second-value key.
SummaryHeadersNoV2(headers, g) ==
    InsertHeader(headers, g.metric_id, make_header(g.metric_id, CNV_SUMMARY_SECTION))

\* The header registry after a CNV SUMMARY line g.
SummaryHeaders(headers, g) ==
    LET metric_id == g.metric_id
        h1 == InsertHeader(headers, metric_id, make_header(metric_id, CNV_SUMMARY_SECTION))
    IN  IF g.value2 # ""
        THEN InsertHeader(h1, metric_id \o V2,
                          make_header(metric_id \o V2, CNV_SUMMARY_SECTION))
        ELSE h1

\* SummaryLog that reports an unusual first value only.
SummaryLogFirstOnly(log, fh, g) ==
    IF g.v1.tag = "str"
    THEN LogUnusualValue(log, fh.root, fh.fn, g.metric, g.value1)
    ELSE log

\* The diagnostics after a CNV SUMMARY line g of file fh.
SummaryLog(log, fh, g) ==
    LET l1 == IF g.v1.tag = "str"
              THEN LogUnusualValue(log, fh.root, fh.fn, g.metric, g.value1)
              ELSE log
    IN  IF g.value2 # "" /\ g.v2.tag = "str"
        THEN LogUnusualValue(l1, fh.root, fh.fn, g.metric \o V2, g.value2)
        ELSE l1

CaseSampleKey == "Karyotype case sample"
PanelSampleKey(metric) == "Karyotype panel sample " \o metric

\* The key under which a SEX GENOTYPER line is stored.
GenotyperKey(g, first) == IF first THEN CaseSampleKey ELSE PanelSampleKey(g.metric)

\* The record after a SEX GENOTYPER line g; first says that no such line
\* came earlier in the file.
GenotyperData(data, g, first) ==
    LET metric_id == GenotyperKey(g, first)
        d1 == Put(data, metric_id, StrVal(g.value1))
    IN  IF g.value2 # ""
        THEN Put(d1, metric_id \o V2, g.v2)
        ELSE d1

\* The header registry after a SEX GENOTYPER line g.
GenotyperHeaders(headers, g, first, counter) ==
    LET metric_id == GenotyperKey(g, first)
        cfg == IF first
               THEN << make_header("karyotype", SEX_GENOTYPER_SECTION),
                       make_header("confidence", SEX_GENOTYPER_SECTION) >>
               ELSE make_panel_headers(g.metric, counter)
    IN  InsertHeader(InsertHeader(headers, metric_id, cfg[1]), metric_id \o V2, cfg[2])

\* The diagnostics after a SEX GENOTYPER line g of file fh.
GenotyperLog(log, fh, g) ==
    IF g.value2 # "" /\ g.v2.tag = "str"
    THEN LogUnusualValue(log, fh.root, fh.fn, g.metric \o V2, g.value2)
    ELSE log

\* GenotyperCounter that never advances the counter.
GenotyperCounterStuck(counter, first) == counter

\* order_counter after a SEX GENOTYPER line: make_panel_headers advances it
\* twice on every panel row.
GenotyperCounter(counter, first) == IF first THEN counter ELSE counter + 2

(***************************************************************************)
(* Collaborators of the host framework                                     *)
(***************************************************************************)

\* clean_s_name: the cleaning stub that drops "-" and "_" from a sample name.
RECURSIVE clean_s_name(_)
clean_s_name(s) ==
    IF s = "" THEN ""
    ELSE IF Head(s) \in {"-", "_"} THEN clean_s_name(Tail(s))
         ELSE Head(s) \o clean_s_name(Tail(s))

\* ignore_samples: the table without the samples of the ignore list.
ignore_samples(table, ignored) ==
    [n \in DOMAIN table \ ignored |-> table[n]]

(***************************************************************************)
(* Bounds and inputs                                                       *)
(***************************************************************************)

\* Files handed to the parser, lines read and batch runs, over one process.
MaxFiles == 2
MaxLines == 3
MaxRuns == 2

\* Lines read, over one process, when the files hold panels of samples.
MaxPanelLines == 4

File(root, fn) == [root |-> root, fn |-> fn]

\* Two raw names that clean to the same name, one of them in two
\* directories, and a name outside the file-name grammar.
BatchFiles ==
    { File("d1", "Sample-1.cnv_metrics.csv"),
      File("d1", "Sample_1.cnv_metrics.csv"),
      File("d2", "Sample_1.cnv_metrics.csv"),
      File("d1", "notes.csv") }

BatchLines ==
    { "CNV SUMMARY,,Number of Segments,17",
      "CNV SUMMARY,,number  of SEGMENTS,NA,42",
      "SEX GENOTYPER,,P1,XX,0.99",
      "garbage,line,here" }

\* Lines of one file: every shape of value, of section and of malformed line.
GrammarLines ==
    { "CNV SUMMARY,,Number of Segments,17",
      "CNV SUMMARY,,Coverage uniformity,0.52",
      "CNV SUMMARY,,Custom metric,NA",
      "CNV SUMMARY,,Custom  Count,7",
      "CNV SUMMARY,,Number of filtered records (total),100,42",
      "CNV SUMMARY,,Number of passing deletions,4,66.67",
      "CNV SUMMARY,,Number of passing deletions(second value),9",
      "CNV SUMMARY,,Number of passing amplifications,3,NA",
      "SEX GENOTYPER,,S1,XX,0.99",
      "SEX GENOTYPER,,S1,XY",
      "",
      "  \t",
      "garbage,line,here",
      "COVERAGE SUMMARY,,Aligned bases,5",
      "cnv summary,,Number of Segments,17",
      "CNV  SUMMARY,,Number of Segments,17",
      " SEX GENOTYPER,,S1,XX,0.99",
      "CNV SUMMARY,,Custom,metric,17",
      "CNV SUMMARY,,Custom metric ,1,NA",
      "CNV SUMMARY,,Number of Segments,17,42,extra" }

GrammarFiles == { File("d1", "S1.cnv_metrics.csv"), File("d1", "S1.v2.cnv_metrics.csv") }

\* Lines of files with a case sample and a panel of two samples.
PanelLines ==
    { "SEX GENOTYPER,,P1,XX,0.99",
      "SEX GENOTYPER,,P2,XY",
      "CNV SUMMARY,,Number of Segments,17",
      "garbage,line,here" }

PanelFiles ==
    { File("d1", "S1.cnv_metrics.csv"),
      File("d1", "S2.cnv_metrics.csv"),
      File("d1", "notes.csv") }

AllLines == BatchLines \cup GrammarLines \cup PanelLines
AllFiles == BatchFiles \cup GrammarFiles \cup PanelFiles

\* The parser's reading of every line and file name the environment may
\* supply.
Line == [line \in AllLines |-> LineInfo(line)]

FileInfo(fn) ==
    [matches |-> FileMatches(fn),
     sample |-> IF FileMatches(fn) THEN FileSample(fn) ELSE "",
     cleaned |-> IF FileMatches(fn) THEN clean_s_name(FileSample(fn)) ELSE ""]

Name == [fn \in {fh.fn : fh \in AllFiles} |-> FileInfo(fn)]

\* The ignore lists a run may be configured with.
IgnoreLists == { {}, {"Sample1"} }

EmptyLog ==
    [invalid_file_names |-> Empty, invalid_file_lines |-> Empty, unusual_values |-> Empty]

NoFile == File("", "")

(***************************************************************************)
(* File-name and line grammars of the coverage parser                      *)
(***************************************************************************)

\* Positions at which sub occurs in s.
Occ(s, sub) ==
    {i \in 1..(Len(s) + 1 - Len(sub)) : SubSeq(s, i, i + Len(sub) - 1) = sub}

\* Positions at which sub occurs in s with at least one character after it.
After(s, sub) == {i \in Occ(s, sub) : i + Len(sub) <= Len(s)}

Max(S) == CHOOSE x \in S : \A y \in S : y <= x
Min(S) == CHOOSE x \in S : \A y \in S : x <= y

\* s from position i to its end.
From(s, i) == SubSeq(s, i, Len(s))

\* str.replace(old, new), for a non-empty old.
RECURSIVE Replace(_, _, _)
Replace(s, old, new) ==
    IF Len(s) < Len(old) THEN s
    ELSE IF SubSeq(s, 1, Len(old)) = old
         THEN new \o Replace(From(s, Len(old) + 1), old, new)
         ELSE Ch(s, 1) \o Replace(Tail(s), old, new)

CovInfix == "_coverage_metrics"

\* Ends of "(.*).csv" read from position i on: the positions of a "csv"
\* that has a character (the unescaped dot) before it, at i or later.
CsvDots(fn, i) == {p \in Occ(fn, "csv") : p - 1 >= i}

\* Positions of "_coverage_metrics" from which "_coverage_metrics(.*).csv"
\* matches.
InfixPos(fn) ==
    {c \in Occ(fn, CovInfix) : CsvDots(fn, c + Len(CovInfix)) # {}}

\* Positions of the dot of "(.+)\.(.+)_coverage_metrics(.*).csv".
DotPos(fn) ==
    {d \in Occ(fn, ".") : d >= 2 /\ \E c \in InfixPos(fn) : c >= d + 2}

\* group(3) of either pattern, for the infix at position c.
CovGroup3(fn, c) ==
    SubSeq(fn, c + Len(CovInfix), Max(CsvDots(fn, c + Len(CovInfix))) - 2)

\* The match of the file name: the first pattern, else the one for the
\* absent point, else none.  Groups are greedy from the left.
CovFileMatch(fn) ==
    IF DotPos(fn) # {}
    THEN LET d == Max(DotPos(fn))
             c == Max({c \in InfixPos(fn) : c >= d + 2})
         IN  [m |-> TRUE, g1 |-> SubSeq(fn, 1, d - 1), g2 |-> SubSeq(fn, d + 1, c - 1),
              g3 |-> CovGroup3(fn, c)]
    ELSE IF \E c \in InfixPos(fn) : c >= 2
    THEN LET c == Max(InfixPos(fn))
         IN  [m |-> TRUE, g1 |-> SubSeq(fn, 1, c - 1), g2 |-> "", g3 |-> CovGroup3(fn, c)]
    ELSE [m |-> FALSE, g1 |-> "", g2 |-> "", g3 |-> ""]

\* clean_sp
clean_sp(sample, phenotype) ==
    [sample |-> Replace(Replace(Replace(Replace(sample, "-", " "), "_", " "),
                                "dragen", ""), "SAMPLE", ""),
     phenotype |-> Replace(Replace(Replace(Replace(phenotype, "-", " "), "_", " "),
                                   "region", ""), "coverage", "")]

\* What parse_coverage_metrics derives from the file name: whether the name
\* is accepted, and the cleaned sample and phenotype.
CovFileInfo(fn) ==
    LET m == CovFileMatch(fn)
        phenotype == IF m.g3 # "" THEN m.g2 \o "_" \o m.g3 ELSE m.g2
        sp == clean_sp(m.g1, phenotype)
    IN  [matches |-> m.m, sample |-> sp.sample, phenotype |-> sp.phenotype]

CovSection == "coverage summary,,"

\* The text after the section literal parses as
\* ([^,]+),([^,]+),?(.*)
CovRestMatches(rest) ==
    /\ Occ(rest, ",") # {}
    /\ Min(Occ(rest, ",")) >= 2
    /\ Min(Occ(rest, ",")) < Len(rest)
    /\ Ch(rest, Min(Occ(rest, ",")) + 1) # ","

\* re.search("COVERAGE SUMMARY,,([^,]+),([^,]+),?(.*)", line, re.IGNORECASE):
\* the starts of a match anywhere in the line.
CovLineStarts(line) ==
    {s \in Occ(Lower(line), CovSection) :
        CovRestMatches(From(line, s + Len(CovSection)))}

CovLineMatches(line) == CovLineStarts(line) # {}

\* groups 1..3 of the leftmost match; the third takes the rest of the line,
\* commas included.
CovLineGroups(line) ==
    LET rest == From(line, Min(CovLineStarts(line)) + Len(CovSection))
        i    == Min(Occ(rest, ","))
        r2   == From(rest, i + 1)
        j    == IF Occ(r2, ",") = {} THEN Len(r2) + 1 ELSE Min(Occ(r2, ","))
    IN  [metric |-> SubSeq(rest, 1, i - 1), value1 |-> SubSeq(r2, 1, j - 1),
         value2 |-> From(r2, j + 1)]

(***************************************************************************)
(* cov_pats: the ordered metric patterns of the coverage parser            *)
(***************************************************************************)

\* config.read_count_prefix and config.base_count_prefix, at their defaults.
read_count_prefix == "M"
base_count_prefix == "Mb"

NoMatch == [m |-> FALSE, x |-> ""]
Matched(x) == [m |-> TRUE, x |-> x]

\* A pattern made of a literal followed by ".+()": the group is empty.
LiteralPattern(metric, lit) ==
    IF After(Lower(metric), lit) # {} THEN Matched("") ELSE NoMatch

\* A pattern "<head>(a|b|..)<tail>.+": the group is the alternative as the
\* line spells it, at the leftmost match.
AltPattern(metric, head, alts, tail) ==
    LET at(a) == After(Lower(metric), head \o a \o tail)
        all   == UNION {at(a) : a \in alts}
    IN  IF all = {} THEN NoMatch
        ELSE LET i == Min(all)
                 a == CHOOSE b \in alts : i \in at(b)
             IN  Matched(SubSeq(metric, i + Len(head), i + Len(head) + Len(a) - 1))

\* "Aligned (bases|reads)$"
AlignedPattern(metric) ==
    IF \E a \in {"bases", "reads"} : EndsWith(Lower(metric), "aligned " \o a)
    THEN Matched(From(metric, Len(metric) - 4))
    ELSE NoMatch

\* "Uniformity of coverage \((.+)\) over .+"
UniformityPattern(metric) ==
    LET open  == "uniformity of coverage ("
        close == After(Lower(metric), ") over ")
        ok    == {i \in Occ(Lower(metric), open) :
                     \E j \in close : j > i + Len(open)}
    IN  IF ok = {} THEN NoMatch
        ELSE Matched(SubSeq(metric, Min(ok) + Len(open), Max(close) - 1))

\* "PCT of .+ with coverage (.+)"
PctPattern(metric) ==
    LET lit  == " with coverage "
        w    == After(Lower(metric), lit)
        ok   == {i \in Occ(Lower(metric), "pct of ") : \E j \in w : j > i + 7}
    IN  IF ok = {} THEN NoMatch
        ELSE Matched(From(metric, Max(w) + Len(lit)))

\* The patterns in the order of cov_pats, each against the metric.
CovPatterns(metric) ==
    << AlignedPattern(metric),
       AltPattern(metric, "aligned ", {"bases", "reads"}, " in "),
       LiteralPattern(metric, "average alignment coverage over "),
       UniformityPattern(metric),
       PctPattern(metric),
       AltPattern(metric, "average ",
                  {"chr x", "chr y", "mitochondrial", "autosomal"}, " coverage over "),
       LiteralPattern(metric, "median autosomal coverage over "),
       LiteralPattern(metric, "mean/median autosomal coverage ratio over "),
       LiteralPattern(metric, "xavgcov/yavgcov ratio over "),
       AltPattern(metric, "", {"x", "y"}, "avgcov/autosomalavgcov ratio over ") >>

\* The number of the first pattern that matches, 0 when none does.
CovPattern(metric) ==
    LET hit == {n \in 1..Len(CovPatterns(metric)) : CovPatterns(metric)[n].m}
    IN  IF hit = {} THEN 0 ELSE Min(hit)

\* The outcome of a lambda of cov_pats: its value, or an exception.
Value(v) == [ok |-> TRUE, v |-> v]
Raises == [ok |-> FALSE, v |-> "AttributeError"]

\* "metric" of pattern n for the group x; for the second pattern, the
\* first of its two names.
CovMetric(n, x) ==
    CASE n = 1 -> "Aligned " \o x \o "."
      [] n = 2 -> "Aligned " \o x \o " in region."
      [] n = 3 -> "Average alignment coverage over region."
      [] n = 4 -> "Uniformity of coverage " \o x \o " over region"
      [] n = 5 -> "PCT of region with coverage region " \o x
      [] n = 6 -> "Average " \o x \o " coverage over region."
      [] n = 7 -> "Median autosomal coverage over region."
      [] n = 8 -> "Mean/Median autosomal coverage ratio over region."
      [] n = 9 -> "XAvgCov/YAvgCov ratio over region."
      [] n = 10 -> x \o "AvgCov/AutosomalAvgCov ratio over region."

\* The second name of the second pattern, the percentage; "" for the
\* patterns that have one name.
CovMetricPct(n, x) ==
    IF n = 2 THEN "Percentage of aligned " \o x \o " in region." ELSE ""

CountPrefix(x) == IF x = "reads" THEN read_count_prefix ELSE base_count_prefix

\* re.search("(\d+)x:", x).group(1)
LowerBound(x) ==
    LET ends == {k \in Occ(x, "x:") : k >= 2 /\ Ch(x, k - 1) \in Digits}
    IN  IF ends = {} THEN Raises
        ELSE LET k == Min(ends)
                 i == Min({i \in 1..(k - 1) : \A j \in i..(k - 1) : Ch(x, j) \in Digits})
             IN  Value(SubSeq(x, i, k - 1))

\* re.search(":\s*(.+)\)", x).group(1)
UpperBound(x) ==
    LET colons == {c \in Occ(x, ":") : \E q \in Occ(x, ")") : q >= c + 2}
    IN  IF colons = {} THEN Raises
        ELSE LET c == Min(colons)
                 q == Max(Occ(x, ")"))
                 w == Max({w \in 0..(q - c - 2) :
                              \A j \in (c + 1)..(c + w) : Ch(x, j) \in Whitespace})
             IN  Value(SubSeq(x, c + w + 1, q - 1))

\* configs["description"] of pattern n; i is 1 or 2 for the two headers of
\* the second pattern.
CovDescription(n, x, i) ==
    CASE n = 1 -> Value("Total number of aligned " \o x)
      [] n = 2 /\ i = 1 ->
            Value(IF x = "bases" THEN "Number of uniquely mapped bases to region."
                  ELSE "Number of uniquely mapped reads to region. When region is the target BED, this metric is equivalent to and replaces Capture Specificity based on target region.")
      [] n = 2 /\ i = 2 ->
            Value(IF x = "bases" THEN "Percentage relative to the number of uniquely mapped bases to the genome."
                  ELSE "Percentage relative to the number of uniquely mapped reads to the genome. When region is the target BED, this metric is equivalent to and replaces Capture Specificity based on target region.")
      [] n = 3 -> Value("Number of uniquely mapped bases to region divided by the number of sites in region.")
      [] n = 4 -> Value("Percentage of sites with coverage greater than % of the mean coverage in region.")
      [] n = 5 ->
            IF LowerBound(x).ok /\ UpperBound(x).ok
            THEN Value("Percentage of sites in region with at least " \o LowerBound(x).v
                       \o " but less than " \o UpperBound(x).v \o " coverage.")
            ELSE Raises
      [] n = 6 -> Value("Total number of bases that aligned to the intersection of chromosome Y with region divided by the total number of loci in the intersection of chromosome Y with region. If there is no chromosome Y in the reference genome or the region does not intersect chromosome Y, this metric shows as NA.")
      [] n = 7 -> Value("Median alignment coverage over the autosomal loci in region. If there is no autosome in the reference genome or the region does not intersect autosomes, this metric shows as NA.")
      [] n = 8 -> Value("Mean autosomal coverage in region divided by the median autosomal coverage in region. If there is no autosome in the reference genome or the region does not intersect autosomes, this metric shows as NA.")
      [] n = 9 -> Value("Average chromosome X alignment coverage in region divided by the average chromosome Y alignment coverage in region. If there is no chromosome X or chromosome Y in the reference genome or the region does not intersect chromosome X or Y, this metric shows as NA.")
      [] n = 10 -> Value("Not given in the official standard. Please fill this in if possible")

\* configs["title"] of pattern n (both headers of the second pattern have
\* the same title).
CovTitle(n, x) ==
    CASE n = 1 -> Value(CountPrefix(x) \o " Aln " \o x)
      [] n = 2 -> Value(CountPrefix(x) \o " Aln " \o x \o " on trg")
      [] n = 3 -> Value("Depth")
      [] n = 4 ->
            IF After(Lower(x), "pct") = {} THEN Raises
            ELSE Value(Replace(From(x, Min(After(Lower(x), "pct")) + 3), " ", ""))
      [] n = 5 -> Value(Replace(x, " ", ""))
      [] n = 6 ->
            LET l == Lower(x)
                i == Min(UNION {Occ(l, a) : a \in {"x", "y", "mit", "aut"}})
                a == IF i \in Occ(l, "mit") \cup Occ(l, "aut") THEN 3 ELSE 1
            IN  Value("Avg " \o SubSeq(x, i, i + a - 1) \o " cov")
      [] n = 7 -> Value("Med aut cov")
      [] n = 8 -> Value("Mean/Med aut cov")
      [] n = 9 -> Value("XAvgCov/YAvgCov")
      [] n = 10 -> Value(x \o "AvgCov/AutAvgCov")

\* configs["hidden"] after the loop that adds the common configs: True for
\* the pattern with two headers, False for the others.
CovHidden(n) == n = 2

\* What parse_coverage_metrics makes of a metric that pattern n matches
\* with group x: its names, and what the description and title lambdas
\* give for its headers.
CovMetricInfo(n, x) ==
    [n |-> n, x |-> x, key |-> CovMetric(n, x), pct |-> CovMetricPct(n, x),
     description |-> CovDescription(n, x, 1),
     description2 |-> CovDescription(n, x, IF n = 2 THEN 2 ELSE 1),
     title |-> CovTitle(n, x), hidden |-> CovHidden(n)]

\* No pattern matches the metric.
NoMetric ==
    [n |-> 0, x |-> "", key |-> "", pct |-> "", description |-> Value(""),
     description2 |-> Value(""), title |-> Value(""), hidden |-> FALSE]

\* The groups of a matching line with its values coerced.
CovValues(g) ==
    [matches |-> TRUE, metric |-> g.metric, value1 |-> g.value1, value2 |-> g.value2,
     v1 |-> CoerceValue1(g.value1),
     v2 |-> IF g.value2 = "" THEN StrVal("") ELSE CoerceValue2(g.value2)]

NoValues ==
    [matches |-> FALSE, metric |-> "", value1 |-> "", value2 |-> "",
     v1 |-> StrVal(""), v2 |-> StrVal("")]

\* The first pattern of cov_pats that matches the metric, with its group.
CovDispatch(metric, pats) ==
    IF \A n \in 1..Len(pats) : ~pats[n].m THEN NoMetric
    ELSE CovMetricInfo(Min({n \in 1..Len(pats) : pats[n].m}),
                       pats[Min({n \in 1..Len(pats) : pats[n].m})].x)

\* What parse_coverage_metrics reads from one line: the groups of the line
\* pattern, the coerced values, and the metric as cov_pats sees it.
CovLineInfo(line) ==
    IF CovLineMatches(line)
    THEN CovValues(CovLineGroups(line))
           @@ CovDispatch(CovLineGroups(line).metric,
                          CovPatterns(CovLineGroups(line).metric))
    ELSE NoValues @@ NoMetric

\* A table of headers, and the exception that stopped its making ("" when
\* none did).
Built(t) == [raised |-> "", t |-> t]
Broken(exception, t) == [raised |-> exception, t |-> t]

\* The header of a new metric as the loop over the configs leaves it: the
\* description, then the title, then the rest; a lambda that raises stops
\* the loop.
NewHeader(description, title, hidden) ==
    IF ~description.ok THEN Empty
    ELSE IF ~title.ok THEN [description |-> description.v]
    ELSE [description |-> description.v, title |-> title.v, hidden |-> hidden]

\* The exception of the first lambda that raises, "" when none does.
Raised(description, title) ==
    IF ~description.ok THEN description.v ELSE IF ~title.ok THEN title.v ELSE ""

\* table_headers_sample_by_phenotype after a line with a known metric: a
\* new metric gets its header, and its percentage, if it has one, its own.
CovSampleHeaders(ts, g) ==
    IF g.key \in DOMAIN ts THEN Built(ts)
    ELSE Broken(Raised(g.description, g.title),
                IF g.pct # ""
                THEN Put(Put(ts, g.key, NewHeader(g.description, g.title, g.hidden)),
                         g.pct, NewHeader(g.description2, g.title, g.hidden))
                ELSE Put(ts, g.key, NewHeader(g.description, g.title, g.hidden)))

\* The header of a new "<phenotype> <metric>", given the header the other
\* table has for the metric: it takes that header's title, with the
\* phenotype appended, right after its own first config is set, and is
\* never hidden.  A header without a title raises KeyError.
NewPhenotypeHeader(g, header, phenotype) ==
    IF ~g.description.ok THEN Empty
    ELSE IF "title" \notin DOMAIN header
    THEN IF g.n = 2 THEN [description |-> g.description.v, hidden |-> FALSE]
         ELSE [description |-> g.description.v]
    ELSE [description |-> g.description.v,
          title |-> header["title"] \o (IF g.n = 2 THEN "" ELSE " ") \o phenotype,
          hidden |-> FALSE]

\* table_headers_phenotype_by_metric after the same line, ts being the
\* other table as the line left it.
CovPhenotypeHeaders(tp, ts, g, phenotype) ==
    IF (phenotype \o " " \o g.key) \in DOMAIN tp THEN Built(tp)
    ELSE Broken(IF ~g.description.ok THEN g.description.v
                ELSE IF "title" \notin DOMAIN ts[g.key] THEN "KeyError"
                ELSE IF ~g.title.ok THEN g.title.v ELSE "",
                Put(tp, phenotype \o " " \o g.key,
                    NewPhenotypeHeader(g, ts[g.key], phenotype)))

\* Both header tables after a line: the second is made only if the first
\* did not raise.
CovBothHeaders(s, tp, g, phenotype) ==
    IF s.raised # "" THEN [raised |-> s.raised, ts |-> s.t, tp |-> tp]
    ELSE [raised |-> CovPhenotypeHeaders(tp, s.t, g, phenotype).raised, ts |-> s.t,
          tp |-> CovPhenotypeHeaders(tp, s.t, g, phenotype).t]

\* The name under which the second value of a line is stored: metric_pct
\* was reset to '' after the headers were made, and metric is a str by then.
StoredPct(g) == ""

\* data after a line with a known metric.
CovData(record, g) ==
    IF g.value2 # "" THEN Put(Put(record, g.key, g.v1), StoredPct(g), g.v2)
    ELSE Put(record, g.key, g.v1)

\* d.update(e)
Update(d, e) == [k \in DOMAIN d \cup DOMAIN e |-> IF k \in DOMAIN e THEN e[k] ELSE d[k]]

\* sample_by_phenotype after a file of the sample and phenotype gave record.
AddCombo(table, sample, phenotype, record) ==
    LET combo_name == sample \o "_" \o phenotype
    IN  Put(table, combo_name, Update(Get(table, combo_name, Empty), record))

\* phenotype_by_metric after the same file.
AddPhenotype(table, sample, phenotype, record) ==
    LET renamed == {phenotype \o " " \o k : k \in DOMAIN record}
        byName  == [c \in renamed |->
                       record[CHOOSE k \in DOMAIN record : phenotype \o " " \o k = c]]
    IN  Put(table, sample, Update(Get(table, sample, Empty), byName))

\* The coverage files a batch may hold: names of both shapes, with and
\* without a qualifier, the same name in two directories, one whose sample
\* cleans to nothing, and one that neither name pattern matches.
CovFiles ==
    { File("d1", "S1.wgs_coverage_metrics.csv"),
      File("d2", "S1.wgs_coverage_metrics.csv"),
      File("d1", "S1.wgs_coverage_metrics_tumor.csv"),
      File("d1", "S1_coverage_metrics.csv"),
      File("d1", "SAMPLE.wgs_coverage_metrics.csv"),
      File("d1", "_coverage_metrics.csv") }

\* The lines a coverage file may hold.
CovLines ==
    { "COVERAGE SUMMARY,,Aligned bases,100",
      "coverage summary,,Aligned reads in genome,5,50.0",
      "COVERAGE SUMMARY,,PCT of genome with coverage [100x: inf),1.5",
      "COVERAGE SUMMARY,,Uniformity of coverage (PCT > 0.2*mean) over genome,95.1",
      "COVERAGE SUMMARY,,PCT of genome with coverage high,3",
      "COVERAGE SUMMARY,,Custom metric,1",
      "COVERAGE SUMMARY,,Aligned bases,100,5,extra",
      "garbage,line,here" }

CovLine == [line \in CovLines |-> CovLineInfo(line)]

CovName == [fn \in {fh.fn : fh \in CovFiles} |-> CovFileInfo(fn)]

(***************************************************************************)
(* State                                                                   *)
(***************************************************************************)

VARIABLES
    inputs,         \* the files and lines the environment may supply
    pc,             \* "idle", "loop" (between files), "parsing" (in a file), "done"
    cnv_data,       \* add_cnv_metrics: cleaned sample name -> record
    cnv_headers,    \* add_cnv_metrics: metric key -> header
    all_samples,    \* add_cnv_metrics: cleaned sample name -> files
    data_sources,   \* files registered by add_data_source in this run
    log_data,       \* module-level diagnostics container
    order_counter,  \* make_panel_headers' counter
    file,           \* cnv_metrics_parser: the file handler
    data,           \* cnv_metrics_parser: the record being filled
    success,        \* cnv_metrics_parser: 1 once a line matched
    case_sample_not_catched,
    line_no,        \* cnv_metrics_parser: lines of the file handled so far
    lines_read,     \* cnv_metrics_parser: those lines, in order
    returned,       \* file -> the record the parser returned with success in this run
    report,         \* the log_data handed to make_parsing_log_report in this run
    dup_report,     \* the all_samples handed to check_duplicate_samples in this run
    result,         \* the sample names add_cnv_metrics returned
    seen,           \* files find_log_files has yielded in this run
    log_at_start,   \* log_data as the run found it
    last_line,      \* the line handled by the latest step of the parser
    nfiles, nlines, nruns

\* The coverage module.
VARIABLES
    cov_pc,         \* "idle", "loop", "parsing", "done", "raised"
    sample_by_phenotype,    \* add_coverage_metrics: "<sample>_<phenotype>" -> record
    phenotype_by_metric,    \* add_coverage_metrics: sample -> record
    table_headers_sample_by_phenotype,  \* module-level: metric -> header
    table_headers_phenotype_by_metric,  \* module-level: "<phenotype> <metric>" -> header
    cov_f,          \* parse_coverage_metrics: the file f
    cov_sample,     \* parse_coverage_metrics: sample
    cov_phenotype,  \* parse_coverage_metrics: phenotype
    cov_data,       \* parse_coverage_metrics: data
    cov_sources,    \* files registered by add_data_source in this run
    cov_returned,   \* file -> the data the parser returned for it in this run
    cov_seen,       \* files find_log_files has yielded in this run
    cov_result,     \* the names add_coverage_metrics returned
    cov_raised,     \* the exception that left add_coverage_metrics, "" if none
    cov_nfiles, cov_nlines, cov_nruns

covVars ==
    << cov_pc, sample_by_phenotype, phenotype_by_metric,
       table_headers_sample_by_phenotype, table_headers_phenotype_by_metric,
       cov_f, cov_sample, cov_phenotype, cov_data, cov_sources, cov_returned, cov_seen,
       cov_result, cov_raised, cov_nfiles, cov_nlines, cov_nruns >>

cnvVars ==
    << inputs, pc, cnv_data, cnv_headers, all_samples, data_sources, log_data,
       order_counter, file, data, success, case_sample_not_catched, line_no,
       lines_read, returned, report, dup_report, result, seen, log_at_start, last_line,
       nfiles, nlines, nruns >>

vars == << cnvVars, covVars >>

runVars == << cnv_data, cnv_headers, all_samples, data_sources, returned >>
parserVars == << file, data, success, case_sample_not_catched, line_no, lines_read >>
endVars == << report, dup_report, result >>
countVars == << nfiles, nlines, nruns >>

\* The state before the first run, for a process that is given the files and
\* lines of one input set and reads at most max_lines lines.
InitBounded(files, lines, max_lines) ==
    /\ inputs = [files |-> files, lines |-> lines, max_lines |-> max_lines]
    /\ pc = "idle"
    /\ cnv_data = Empty
    /\ cnv_headers = Empty
    /\ all_samples = Empty
    /\ data_sources = {}
    /\ log_data = EmptyLog
    /\ order_counter = RESERVED_START
    /\ file = NoFile
    /\ data = Empty
    /\ success = 0
    /\ case_sample_not_catched = TRUE
    /\ line_no = 0
    /\ lines_read = <<>>
    /\ returned = Empty
    /\ report = <<>>
    /\ dup_report = Empty
    /\ result = {}
    /\ seen = {}
    /\ log_at_start = EmptyLog
    /\ last_line = ""
    /\ nfiles = 0
    /\ nlines = 0
    /\ nruns = 0
    /\ cov_pc = "idle"
    /\ sample_by_phenotype = Empty
    /\ phenotype_by_metric = Empty
    /\ table_headers_sample_by_phenotype = Empty
    /\ table_headers_phenotype_by_metric = Empty
    /\ cov_f = NoFile
    /\ cov_sample = ""
    /\ cov_phenotype = ""
    /\ cov_data = Empty
    /\ cov_sources = {}
    /\ cov_returned = Empty
    /\ cov_seen = {}
    /\ cov_result = {}
    /\ cov_raised = ""
    /\ cov_nfiles = 0
    /\ cov_nlines = 0
    /\ cov_nruns = 0

InitWith(files, lines) == InitBounded(files, lines, MaxLines)

Init == InitWith(BatchFiles, BatchLines)

(***************************************************************************)
(* add_cnv_metrics and cnv_metrics_parser                                  *)
(***************************************************************************)

\* add_cnv_metrics is called: fresh table, registry and sample list.
StartBatch ==
    /\ pc \in {"idle", "done"}
    /\ nruns < MaxRuns
    /\ pc' = "loop"
    /\ cnv_data' = Empty
    /\ cnv_headers' = Empty
    /\ all_samples' = Empty
    /\ data_sources' = {}
    /\ returned' = Empty
    /\ report' = <<>>
    /\ dup_report' = Empty
    /\ result' = {}
    /\ seen' = {}
    /\ log_at_start' = log_data
    /\ nruns' = nruns + 1
    /\ UNCHANGED << covVars, inputs, log_data, order_counter, parserVars, last_line, nfiles, nlines >>

\* The parser is handed a file whose name FILE_RGX rejects: it returns
\* {"success": 0} and the loop goes on.
RejectFileName(fh) ==
    /\ pc = "loop"
    /\ nfiles < MaxFiles
    /\ fh \in inputs.files \ seen
    /\ ~Name[fh.fn].matches
    /\ log_data' = LogInvalidFileName(log_data, fh.root, fh.fn)
    /\ seen' = seen \cup {fh}
    /\ nfiles' = nfiles + 1
    /\ UNCHANGED << covVars, inputs, pc, runVars, order_counter, parserVars, endVars,
                    log_at_start, last_line, nlines, nruns >>

\* The parser is handed a file whose name FILE_RGX accepts.
OpenFile(fh) ==
    /\ pc = "loop"
    /\ nfiles < MaxFiles
    /\ fh \in inputs.files \ seen
    /\ Name[fh.fn].matches
    /\ pc' = "parsing"
    /\ file' = fh
    /\ data' = Empty
    /\ success' = 0
    /\ case_sample_not_catched' = TRUE
    /\ line_no' = 0
    /\ lines_read' = <<>>
    /\ seen' = seen \cup {fh}
    /\ nfiles' = nfiles + 1
    /\ last_line' = ""
    /\ UNCHANGED << covVars, inputs, runVars, log_data, order_counter, endVars,
                    log_at_start, nlines, nruns >>

\* A line of the CNV SUMMARY section.
ParseSummaryLine(line) ==
    /\ pc = "parsing"
    /\ nlines < inputs.max_lines
    /\ line \in inputs.lines
    /\ Line[line].matches
    /\ Line[line].section = CNV_SUMMARY_SECTION
    /\ success' = 1
    /\ data' = SummaryData(data, Line[line])
    /\ cnv_headers' = SummaryHeaders(cnv_headers, Line[line])
    /\ log_data' = SummaryLog(log_data, file, Line[line])
    /\ last_line' = line
    /\ line_no' = line_no + 1
    /\ lines_read' = Append(lines_read, line)
    /\ nlines' = nlines + 1
    /\ UNCHANGED << covVars, inputs, pc, cnv_data, all_samples, data_sources, returned,
                    order_counter, file, case_sample_not_catched, endVars, seen,
                    log_at_start, nfiles, nruns >>

\* A line of the SEX GENOTYPER section: the case sample, or a panel sample.
ParseGenotyperLine(line) ==
    /\ pc = "parsing"
    /\ nlines < inputs.max_lines
    /\ line \in inputs.lines
    /\ Line[line].matches
    /\ Line[line].section # CNV_SUMMARY_SECTION
    /\ success' = 1
    /\ case_sample_not_catched' = FALSE
    /\ data' = GenotyperData(data, Line[line], case_sample_not_catched)
    /\ cnv_headers' = GenotyperHeaders(cnv_headers, Line[line],
                                       case_sample_not_catched, order_counter)
    /\ order_counter' = GenotyperCounter(order_counter, case_sample_not_catched)
    /\ log_data' = GenotyperLog(log_data, file, Line[line])
    /\ last_line' = line
    /\ line_no' = line_no + 1
    /\ lines_read' = Append(lines_read, line)
    /\ nlines' = nlines + 1
    /\ UNCHANGED << covVars, inputs, pc, cnv_data, all_samples, data_sources, returned, file,
                    endVars, seen, log_at_start, nfiles, nruns >>

\* A line LINE_RGX does not match: reported unless blank.
SkipLine(line) ==
    /\ pc = "parsing"
    /\ nlines < inputs.max_lines
    /\ line \in inputs.lines
    /\ ~Line[line].matches
    /\ log_data' = IF Line[line].blank THEN log_data
                   ELSE LogInvalidLine(log_data, file.root, file.fn, line)
    /\ last_line' = line
    /\ line_no' = line_no + 1
    /\ lines_read' = Append(lines_read, line)
    /\ nlines' = nlines + 1
    /\ UNCHANGED << covVars, inputs, pc, runVars, order_counter, file, data, success,
                    case_sample_not_catched, endVars, seen, log_at_start, nfiles,
                    nruns >>

\* AddSample that keeps the record a sample already has.
AddSampleKeepFirst(table, fh, record) ==
    IF Name[fh.fn].cleaned \in DOMAIN table THEN table
    ELSE Put(table, Name[fh.fn].cleaned, record)

\* AddSample under the raw sample name.
AddSampleRaw(table, fh, record) == Put(table, Name[fh.fn].sample, record)

\* The sample table after the parser returned data with success for file fh.
AddSample(table, fh, record) == Put(table, Name[fh.fn].cleaned, record)

\* AddSampleFile that keeps only the latest file of a sample.
AddSampleFileLast(samples, fh) == Put(samples, Name[fh.fn].cleaned, <<fh>>)

\* all_samples after the parser returned with success for file fh.
AddSampleFile(samples, fh) ==
    Put(samples, Name[fh.fn].cleaned, Append(Get(samples, Name[fh.fn].cleaned, <<>>), fh))

\* ReturnFile that takes the result of the parser whatever its success.
ReturnFileAnyway ==
    /\ pc = "parsing"
    /\ pc' = "loop"
    /\ data_sources' = data_sources \cup {file}
    /\ all_samples' = AddSampleFile(all_samples, file)
    /\ cnv_data' = AddSample(cnv_data, file, data)
    /\ returned' = Put(returned, file, data)
    /\ UNCHANGED << covVars, inputs, cnv_headers, log_data, order_counter, parserVars,
                    endVars, seen, log_at_start, last_line, countVars >>

\* The parser returns at the end of the file, and the loop of
\* add_cnv_metrics takes the result.
ReturnFile ==
    /\ pc = "parsing"
    /\ pc' = "loop"
    /\ IF success = 1
       THEN /\ data_sources' = data_sources \cup {file}
            /\ all_samples' = AddSampleFile(all_samples, file)
            /\ cnv_data' = AddSample(cnv_data, file, data)
            /\ returned' = Put(returned, file, data)
       ELSE UNCHANGED << data_sources, all_samples, cnv_data, returned >>
    /\ UNCHANGED << covVars, inputs, cnv_headers, log_data, order_counter, parserVars, endVars,
                    seen, log_at_start, last_line, countVars >>

\* Whether add_cnv_metrics goes on after ignore_samples (it returns an empty
\* set when no sample is left).
ReachesReport(table) == DOMAIN table # {}

\* find_log_files is exhausted: the rest of add_cnv_metrics.
FinishBatch(ignored) ==
    /\ pc = "loop"
    /\ ignored \in IgnoreLists
    /\ pc' = "done"
    /\ cnv_data' = ignore_samples(cnv_data, ignored)
    /\ IF ReachesReport(cnv_data')
       THEN /\ dup_report' = all_samples
            /\ report' = Append(report, log_data)
            /\ result' = DOMAIN cnv_data'
       ELSE /\ result' = {}
            /\ UNCHANGED << dup_report, report >>
    /\ UNCHANGED << covVars, inputs, cnv_headers, all_samples, data_sources, returned,
                    log_data, order_counter, parserVars, seen, log_at_start,
                    last_line, countVars >>

Next ==
    \/ StartBatch
    \/ \E fh \in inputs.files : RejectFileName(fh)
    \/ \E fh \in inputs.files : OpenFile(fh)
    \/ \E line \in inputs.lines : ParseSummaryLine(line)
    \/ \E line \in inputs.lines : ParseGenotyperLine(line)
    \/ \E line \in inputs.lines : SkipLine(line)
    \/ ReturnFile
    \/ \E ignored \in IgnoreLists : FinishBatch(ignored)

Spec == Init /\ [][Next]_vars

\* One well-named file, read line by line, with every shape of line.
InitLines == InitWith(GrammarFiles, GrammarLines)
SpecLines == InitLines /\ [][Next]_vars

\* Two well-named files that hold a case sample and panel samples.
InitPanels == InitBounded(PanelFiles, PanelLines, MaxPanelLines)
SpecPanels == InitPanels /\ [][Next]_vars

(***************************************************************************)
(* add_coverage_metrics and parse_coverage_metrics                         *)
(***************************************************************************)

covRunVars == << sample_by_phenotype, phenotype_by_metric, cov_sources, cov_returned >>
covHeaderVars ==
    << table_headers_sample_by_phenotype, table_headers_phenotype_by_metric >>
covParserVars == << cov_f, cov_sample, cov_phenotype, cov_data >>
covCountVars == << cov_nfiles, cov_nlines, cov_nruns >>

\* add_coverage_metrics is called: fresh holders; the header tables are
\* the module's and stay as the last call left them.
CovStart ==
    /\ cov_pc \in {"idle", "done", "raised"}
    /\ cov_nruns < MaxRuns
    /\ cov_pc' = "loop"
    /\ sample_by_phenotype' = Empty
    /\ phenotype_by_metric' = Empty
    /\ cov_sources' = {}
    /\ cov_returned' = Empty
    /\ cov_seen' = {}
    /\ cov_result' = {}
    /\ cov_raised' = ""
    /\ cov_nruns' = cov_nruns + 1
    /\ UNCHANGED << cnvVars, covHeaderVars, covParserVars, cov_nfiles, cov_nlines >>

\* The parser is handed a file whose name neither pattern matches: it
\* returns four values, and the loop, which unpacks three, raises
\* ValueError.
CovRejectFileName(fh) ==
    /\ cov_pc = "loop"
    /\ cov_nfiles < MaxFiles
    /\ fh \in CovFiles \ cov_seen
    /\ ~CovName[fh.fn].matches
    /\ cov_pc' = "raised"
    /\ cov_raised' = "ValueError"
    /\ cov_seen' = cov_seen \cup {fh}
    /\ cov_nfiles' = cov_nfiles + 1
    /\ UNCHANGED << cnvVars, covRunVars, covHeaderVars, covParserVars, cov_result,
                    cov_nlines, cov_nruns >>

\* The parser is handed a file whose name one of the patterns matches.
CovOpenFile(fh) ==
    /\ cov_pc = "loop"
    /\ cov_nfiles < MaxFiles
    /\ fh \in CovFiles \ cov_seen
    /\ CovName[fh.fn].matches
    /\ cov_pc' = "parsing"
    /\ cov_f' = fh
    /\ cov_sample' = CovName[fh.fn].sample
    /\ cov_phenotype' = CovName[fh.fn].phenotype
    /\ cov_data' = Empty
    /\ cov_seen' = cov_seen \cup {fh}
    /\ cov_nfiles' = cov_nfiles + 1
    /\ UNCHANGED << cnvVars, covRunVars, covHeaderVars, cov_result, cov_raised,
                    cov_nlines, cov_nruns >>

\* The header tables a line with a known metric leaves, and the exception
\* that stopped it, if any.
CovLineHeaders(g) ==
    CovBothHeaders(CovSampleHeaders(table_headers_sample_by_phenotype, g),
                   table_headers_phenotype_by_metric, g, cov_phenotype)

\* A line with a metric that a pattern of cov_pats matches.
CovParseLine(line) ==
    /\ cov_pc = "parsing"
    /\ cov_nlines < inputs.max_lines
    /\ line \in CovLines
    /\ CovLine[line].matches
    /\ CovLine[line].n # 0
    /\ CovLineHeaders(CovLine[line]).raised = ""
    /\ table_headers_sample_by_phenotype' = CovLineHeaders(CovLine[line]).ts
    /\ table_headers_phenotype_by_metric' = CovLineHeaders(CovLine[line]).tp
    /\ cov_data' = CovData(cov_data, CovLine[line])
    /\ cov_nlines' = cov_nlines + 1
    /\ UNCHANGED << cnvVars, cov_pc, covRunVars, cov_f, cov_sample, cov_phenotype,
                    cov_seen, cov_result, cov_raised, cov_nfiles, cov_nruns >>

\* A line with a metric that a pattern matches and for which a header
\* lambda raises: the exception leaves parse_coverage_metrics and
\* add_coverage_metrics; the header tables keep what was written.
CovLineRaises(line) ==
    /\ cov_pc = "parsing"
    /\ cov_nlines < inputs.max_lines
    /\ line \in CovLines
    /\ CovLine[line].matches
    /\ CovLine[line].n # 0
    /\ CovLineHeaders(CovLine[line]).raised # ""
    /\ table_headers_sample_by_phenotype' = CovLineHeaders(CovLine[line]).ts
    /\ table_headers_phenotype_by_metric' = CovLineHeaders(CovLine[line]).tp
    /\ cov_pc' = "raised"
    /\ cov_raised' = CovLineHeaders(CovLine[line]).raised
    /\ cov_nlines' = cov_nlines + 1
    /\ UNCHANGED << cnvVars, covRunVars, covParserVars, cov_seen, cov_result,
                    cov_nfiles, cov_nruns >>

\* A line the line pattern does not match, or with a metric no pattern of
\* cov_pats matches: logged at debug level and passed over.
CovSkipLine(line) ==
    /\ cov_pc = "parsing"
    /\ cov_nlines < inputs.max_lines
    /\ line \in CovLines
    /\ ~CovLine[line].matches \/ CovLine[line].n = 0
    /\ cov_nlines' = cov_nlines + 1
    /\ UNCHANGED << cnvVars, cov_pc, covRunVars, covHeaderVars, covParserVars,
                    cov_seen, cov_result, cov_raised, cov_nfiles, cov_nruns >>

\* The parser returns at the end of the file, and the loop of
\* add_coverage_metrics takes the result: nothing for an empty sample.
CovReturnFile ==
    /\ cov_pc = "parsing"
    /\ cov_pc' = "loop"
    /\ IF cov_sample # ""
       THEN /\ cov_sources' = cov_sources \cup {cov_f}
            /\ cov_returned' = Put(cov_returned, cov_f, cov_data)
            /\ phenotype_by_metric' =
                  AddPhenotype(phenotype_by_metric, clean_s_name(cov_sample),
                               cov_phenotype, cov_data)
            /\ sample_by_phenotype' =
                  AddCombo(sample_by_phenotype, clean_s_name(cov_sample),
                           cov_phenotype, cov_data)
       ELSE UNCHANGED covRunVars
    /\ UNCHANGED << cnvVars, covHeaderVars, covParserVars, cov_seen, cov_result,
                    cov_raised, covCountVars >>

\* find_log_files is exhausted: the rest of add_coverage_metrics.
CovFinish(ignored) ==
    /\ cov_pc = "loop"
    /\ ignored \in IgnoreLists
    /\ cov_pc' = "done"
    /\ sample_by_phenotype' = ignore_samples(sample_by_phenotype, ignored)
    /\ cov_result' = DOMAIN sample_by_phenotype'
    /\ UNCHANGED << cnvVars, phenotype_by_metric, cov_sources, cov_returned, covHeaderVars,
                    covParserVars, cov_seen, cov_raised, covCountVars >>

NextCov ==
    \/ CovStart
    \/ \E fh \in CovFiles : CovRejectFileName(fh)
    \/ \E fh \in CovFiles : CovOpenFile(fh)
    \/ \E line \in CovLines : CovParseLine(line)
    \/ \E line \in CovLines : CovLineRaises(line)
    \/ \E line \in CovLines : CovSkipLine(line)
    \/ CovReturnFile
    \/ \E ignored \in IgnoreLists : CovFinish(ignored)

SpecCov == Init /\ [][NextCov]_vars

(***************************************************************************)
(* Properties                                                              *)
(***************************************************************************)

\* The parser is inside a file and has just handled a line.
AfterLine == pc = "parsing" /\ line_no > 0

\* The step just taken handled a line.
LineStep == line_no' = line_no + 1

\* The step belongs to the run in progress (it is not the start of a run).
SameRun == nruns' = nruns

\* Keys of the records the parser has returned or is filling in this run.
RecordKeys ==
    UNION {DOMAIN cnv_data[n] : n \in DOMAIN cnv_data}
      \cup UNION {DOMAIN returned[fh] : fh \in DOMAIN returned}
      \cup (IF pc = "parsing" THEN DOMAIN data ELSE {})

\* C1: every metric key of a record the parser produced against the
\* registry of the run has an entry in cnv_headers.
C1_KeysHaveHeaders == RecordKeys \subseteq DOMAIN cnv_headers

\* C1 witness: a returned record with a summary key, its second-value key,
\* the case-sample keys and a panel-sample key, all registered.
C1_Witness ==
    /\ pc = "loop"
    /\ \E fh \in DOMAIN returned :
          { "number of segments", "number of segments" \o V2, CaseSampleKey,
            CaseSampleKey \o V2, PanelSampleKey("P1") } \subseteq DOMAIN returned[fh]
    /\ RecordKeys \subseteq DOMAIN cnv_headers

\* C2: within a run, a step never removes or changes an entry of
\* cnv_headers.
C2_HeadersKept ==
    [][SameRun => \A k \in DOMAIN cnv_headers :
                      k \in DOMAIN cnv_headers' /\ cnv_headers'[k] = cnv_headers[k]]_vars

\* C2 witness: the row of panel sample P1 has been read twice, and its header
\* is still the one numbered at the first reading.
C2_Witness ==
    /\ order_counter = RESERVED_START + 4
    /\ PanelSampleKey("P1") \in DOMAIN cnv_headers
    /\ cnv_headers[PanelSampleKey("P1")].order_priority = <<RESERVED_START, 0>>
    /\ cnv_headers[PanelSampleKey("P1") \o V2].order_priority = <<RESERVED_START + 1, 0>>

\* The raw sample names of the files that yielded cleaned name n.
RawNames(n) == {Name[all_samples[n][i].fn].sample : i \in 1..Len(all_samples[n])}

\* Two files of the run yielded cleaned name n from the same raw name.
HasRawDuplicate(n) ==
    \E i, j \in 1..Len(all_samples[n]) :
        i < j /\ Name[all_samples[n][i].fn].sample = Name[all_samples[n][j].fn].sample

\* The first file among those that share their raw name with a later file
\* under cleaned name n.
FirstDuplicated(n) ==
    LET i == CHOOSE a \in 1..Len(all_samples[n]) :
                 /\ \E b \in (a + 1)..Len(all_samples[n]) :
                        Name[all_samples[n][a].fn].sample = Name[all_samples[n][b].fn].sample
                 /\ \A c \in 1..(a - 1) :
                        \A b \in (c + 1)..Len(all_samples[n]) :
                            Name[all_samples[n][c].fn].sample # Name[all_samples[n][b].fn].sample
    IN  all_samples[n][i]

\* Two files of the run yielded cleaned name n from distinct raw names.
HasCleanCollision(n) == Cardinality(RawNames(n)) > 1

LastFile(n) == all_samples[n][Len(all_samples[n])]

\* C3 as stated: at the end of the run the table holds the record of the
\* first of the files that share a raw sample name.
C3_FirstFileKept ==
    pc = "done" =>
        \A n \in DOMAIN cnv_data :
            HasRawDuplicate(n) => cnv_data[n] = returned[FirstDuplicated(n)]

\* C3 amended: at the end of the run the table holds the record of the last
\* file that yielded the name, and all the files are in the list handed to
\* the duplicate check.
C3_LastFileKept ==
    pc = "done" =>
        \A n \in DOMAIN cnv_data :
            HasRawDuplicate(n) =>
                /\ cnv_data[n] = returned[LastFile(n)]
                /\ n \in DOMAIN dup_report
                /\ dup_report[n] = all_samples[n]

\* C3 witness: a finished run in which two files with the same raw name
\* returned different records.
C3_Witness ==
    /\ pc = "done"
    /\ \E n \in DOMAIN cnv_data :
          /\ HasRawDuplicate(n)
          /\ returned[FirstDuplicated(n)] # returned[LastFile(n)]
          /\ cnv_data[n] = returned[LastFile(n)]

\* C4 as stated: at the end of the run the table has an entry under each of
\* the raw names that cleaning collapsed.
C4_BothRawKept ==
    pc = "done" =>
        \A n \in DOMAIN cnv_data :
            HasCleanCollision(n) => RawNames(n) \subseteq DOMAIN cnv_data

\* C4 amended: the table is keyed by cleaned names only; it has one entry,
\* under the cleaned name, holding the record of the last of the files; no
\* entry is keyed by a raw name that differs from it; the files are in the
\* list handed to the duplicate check.
C4_OneCleanedEntry ==
    pc = "done" =>
        /\ DOMAIN cnv_data \subseteq DOMAIN all_samples
        /\ \A n \in DOMAIN cnv_data \cap DOMAIN all_samples :
            HasCleanCollision(n) =>
                /\ cnv_data[n] = returned[LastFile(n)]
                /\ RawNames(n) \cap DOMAIN cnv_data \subseteq {n}
                /\ n \in DOMAIN dup_report
                /\ \A fh \in DOMAIN returned :
                       Name[fh.fn].cleaned = n =>
                           \E i \in 1..Len(dup_report[n]) : dup_report[n][i] = fh

\* C4 witness: a finished run with Sample-1 and Sample_1 both parsed and one
\* entry, Sample1, in the table.
C4_Witness ==
    /\ pc = "done"
    /\ DOMAIN cnv_data = {"Sample1"}
    /\ RawNames("Sample1") = {"Sample-1", "Sample_1"}
    /\ returned[all_samples["Sample1"][1]] # returned[all_samples["Sample1"][2]]

\* C5 as stated, for the coverage module: no file handed to
\* add_coverage_metrics, whatever its name and lines, makes the call end
\* by an exception; the loop always goes on to the next file.
C5_BatchNeverAborts == cov_pc # "raised" /\ cov_raised = ""

\* C6 as stated: a finished run that collected a diagnostic has emitted the
\* report once.
C6_ReportEmitted ==
    (pc = "done" /\ log_data # log_at_start) => Len(report) = 1

\* The unusual values and the invalid lines recorded for file fh.
Unusual(log, fh) == Get(Get(log.unusual_values, fh.root, Empty), fh.fn, Empty)
InvalidLines(log, fh) == Get(Get(log.invalid_file_lines, fh.root, Empty), fh.fn, <<>>)

\* The line handled by the step just taken, as the parser read it.
Handled == Line[last_line']

SummaryStep ==
    pc = "parsing" /\ LineStep /\ Handled.matches /\ Handled.section = CNV_SUMMARY_SECTION

\* C7: the first value of a CNV SUMMARY line is stored as an int when int()
\* accepts it, else as a float when float() accepts it, else as its text with
\* an unusual-value entry (raw metric name -> raw value) for the file; a
\* value stored as a number leaves the entry of the metric as it was.
C7_FirstValueCoercion ==
    [][SummaryStep =>
        LET v   == Handled.value1
            got == data'[Handled.metric_id]
        IN  /\ IsIntLiteral(v) => got = IntVal(PyInt(v))
            /\ (~IsIntLiteral(v) /\ IsFloatLiteral(v)) => got = PyFloat(v)
            /\ (~IsIntLiteral(v) /\ ~IsFloatLiteral(v)) =>
                   /\ got = StrVal(v)
                   /\ Handled.metric \in DOMAIN Unusual(log_data', file)
                   /\ Unusual(log_data', file)[Handled.metric] = v
            /\ (IsIntLiteral(v) \/ IsFloatLiteral(v)) =>
                   /\ got.tag \in {"int", "float"}
                   /\ Get(Unusual(log_data', file), Handled.metric, "") =
                          Get(Unusual(log_data, file), Handled.metric, "")
            /\ v = "17" => got = IntVal(17)
            /\ v = "0.52" => got = FloatVal(52, -2)
            /\ v = "NA" => got = StrVal("NA")]_vars

\* C7 witness: the three kinds of first value have been read from one file:
\* 17 stored as int, 0.52 as float, NA as text with its diagnostic.
C7_Witness ==
    /\ AfterLine
    /\ {"number of segments", "coverage uniformity", "custom metric"} \subseteq DOMAIN data
    /\ data["number of segments"] = IntVal(17)
    /\ data["coverage uniformity"] = FloatVal(52, -2)
    /\ data["custom metric"] = StrVal("NA")
    /\ Unusual(log_data, file) = ("Custom metric" :> "NA")

\* C8 as stated: a second value that is an exact integer literal is stored
\* as an int.
C8_SecondValueIntFirst ==
    [][(SummaryStep /\ Handled.value2 # "" /\ IsIntLiteral(Handled.value2)) =>
           data'[Handled.metric_id \o V2] = IntVal(PyInt(Handled.value2))]_vars

\* The key under which the step just taken stored the first value.
HandledKey ==
    IF Handled.section = CNV_SUMMARY_SECTION THEN Handled.metric_id
    ELSE IF case_sample_not_catched THEN CaseSampleKey ELSE PanelSampleKey(Handled.metric)

\* C8 amended: a non-empty second value is stored as a float whenever float()
\* accepts it, an exact integer literal included (42 becomes 42.0); else as
\* its text, with an unusual-value entry under the metric name + V2.
C8_SecondValueFloatFirst ==
    [][(pc = "parsing" /\ LineStep /\ Handled.matches /\ Handled.value2 # "") =>
        LET v   == Handled.value2
            got == data'[HandledKey \o V2]
        IN  /\ IsFloatLiteral(v) => got = PyFloat(v) /\ got.tag = "float"
            /\ ~IsFloatLiteral(v) =>
                   /\ got = StrVal(v)
                   /\ Unusual(log_data', file)[Handled.metric \o V2] = v
            /\ v = "42" => got = FloatVal(42, 0)
            /\ v = "66.67" => got = FloatVal(6667, -2)]_vars

\* C8 witness: the line with second value 42 has been read and 42.0 stored.
C8_Witness ==
    /\ AfterLine
    /\ last_line = "CNV SUMMARY,,Number of filtered records (total),100,42"
    /\ data["number of filtered records (total)"] = IntVal(100)
    /\ data["number of filtered records (total)" \o V2] = FloatVal(42, 0)

C10_RejectedLines ==
    [][(pc = "parsing" /\ LineStep /\ ~Handled.matches) =>
        /\ data' = data
        /\ cnv_headers' = cnv_headers
        /\ success' = success
        /\ Handled.blank => log_data' = log_data
        /\ ~Handled.blank =>
               /\ InvalidLines(log_data', file) =
                      Append(InvalidLines(log_data, file), last_line')
               /\ log_data'.unusual_values = log_data.unusual_values
               /\ log_data'.invalid_file_names = log_data.invalid_file_names
        /\ last_line' \in {"", "  \t"} => log_data' = log_data
        /\ last_line' \in {"garbage,line,here", "COVERAGE SUMMARY,,Aligned bases,5"} =>
               log_data' # log_data]_vars

\* C10 witness: three lines of a file were read, none matched, and the two
\* that are not blank are the invalid lines of the file.
C10_Witness ==
    /\ AfterLine
    /\ line_no = 3
    /\ data = Empty
    /\ cnv_headers = Empty
    /\ success = 0
    /\ InvalidLines(log_data, file) =
           <<"garbage,line,here", "COVERAGE SUMMARY,,Aligned bases,5">>

\* The files find_log_files yields in the step just taken.
Taken == seen' \ seen

\* C11: a step that hands the parser a file whose name FILE_RGX rejects
\* appends the name to the invalid file names of its directory and changes
\* no other diagnostic, no header, no sample and no data source; the parser
\* is not entered, so no line of the file is read and nothing is returned
\* for it.
C11_RejectedFile ==
    [][\A fh \in Taken : ~FileMatches(fh.fn) =>
        /\ log_data'.invalid_file_names =
               Put(log_data.invalid_file_names, fh.root,
                   Append(Get(log_data.invalid_file_names, fh.root, <<>>), fh.fn))
        /\ log_data'.invalid_file_lines = log_data.invalid_file_lines
        /\ log_data'.unusual_values = log_data.unusual_values
        /\ cnv_headers' = cnv_headers
        /\ cnv_data' = cnv_data
        /\ all_samples' = all_samples
        /\ data_sources' = data_sources
        /\ returned' = returned
        /\ fh \notin DOMAIN returned'
        /\ pc' = "loop"]_vars

\* C11 witness: after a file gave a sample, notes.csv has been handed to the
\* parser and is the one invalid file name of its directory; the sample
\* table still holds the one sample.
C11_Witness ==
    /\ pc = "loop"
    /\ File("d1", "notes.csv") \in seen
    /\ ~FileMatches("notes.csv")
    /\ log_data.invalid_file_names = ("d1" :> <<"notes.csv">>)
    /\ DOMAIN cnv_data = {"Sample1"}
    /\ Cardinality(seen) = 2

\* No line read from the file so far matched LINE_RGX.
NoneMatched == \A i \in 1..Len(lines_read) : ~Line[lines_read[i]].matches

NonBlank(line) == ~Line[line].blank

\* Inside a file: success is 1 exactly when some line matched; as long as
\* none did, the record is empty and the invalid lines of the file are, after
\* those it had when the run started, the non-blank lines read, one entry
\* each, in order.
InFile ==
    /\ success = (IF NoneMatched THEN 0 ELSE 1)
    /\ NoneMatched =>
          /\ data = Empty
          /\ InvalidLines(log_data, file) =
                 InvalidLines(log_at_start, file) \o SelectSeq(lines_read, NonBlank)

\* The parser returns: the step from the end of the file back to the loop.
ReturnStep == pc = "parsing" /\ pc' = "loop"

\* C12: a well-named file in which no line matched is returned with success
\* 0, an empty record and one invalid-line entry per non-blank line, and
\* adds no sample, no file of a sample and no data source; success is 1 only
\* if a line matched.
C12_NoLineMatched ==
    [][/\ pc' = "parsing" => InFile'
       /\ (ReturnStep /\ NoneMatched) =>
             /\ InFile
             /\ success = 0
             /\ cnv_data' = cnv_data
             /\ all_samples' = all_samples
             /\ data_sources' = data_sources
             /\ file \notin data_sources'
             /\ file \notin DOMAIN returned'
       /\ (ReturnStep /\ file \in data_sources') => ~NoneMatched]_vars

\* C12 witness: a file with a garbage line, a blank line and a line of
\* another module has been returned: success 0, two invalid lines, no
\* sample, no data source.
C12_Witness ==
    /\ pc = "loop"
    /\ file = File("d1", "S1.cnv_metrics.csv")
    /\ lines_read = <<"garbage,line,here", "", "COVERAGE SUMMARY,,Aligned bases,5">>
    /\ success = 0
    /\ data = Empty
    /\ InvalidLines(log_data, file) =
           <<"garbage,line,here", "COVERAGE SUMMARY,,Aligned bases,5">>
    /\ cnv_data = Empty
    /\ data_sources = {}

\* The end-to-end scenario: the one file of the batch is S1.cnv_metrics.csv,
\* its lines were "CNV SUMMARY,,Number of Segments,17" and
\* "SEX GENOTYPER,,S1,XX,0.99", and the loop has taken the parser's result.
Scenario ==
    /\ pc = "loop"
    /\ seen = {File("d1", "S1.cnv_metrics.csv")}
    /\ file = File("d1", "S1.cnv_metrics.csv")
    /\ lines_read = <<"CNV SUMMARY,,Number of Segments,17", "SEX GENOTYPER,,S1,XX,0.99">>

\* C13 as stated: the scenario gives the sample table
\* {"S1": {"number of segments": 17, "Karyotype": "XX", "Confidence": 0.99}}
\* and headers for exactly these three keys.
C13_ScenarioAsStated ==
    Scenario =>
        /\ cnv_data = ("S1" :> ("number of segments" :> IntVal(17)
                                  @@ "Karyotype" :> StrVal("XX")
                                  @@ "Confidence" :> FloatVal(99, -2)))
        /\ DOMAIN cnv_headers = {"number of segments", "Karyotype", "Confidence"}

\* C13 amended: the scenario gives the sample table
\* {"S1": {"number of segments": 17, "Karyotype case sample": "XX",
\*         "Karyotype case sample(second value)": 0.99}}
\* and headers for exactly these three keys: the catalog entries of
\* "number of segments", "karyotype" and "confidence"; no diagnostic is
\* recorded.
C13_Scenario ==
    Scenario =>
        /\ cnv_data = ("S1" :> ("number of segments" :> IntVal(17)
                                  @@ "Karyotype case sample" :> StrVal("XX")
                                  @@ "Karyotype case sample(second value)" :> FloatVal(99, -2)))
        /\ cnv_headers =
              ("number of segments" :> CnvSummaryMetrics["number of segments"]
                 @@ "Karyotype case sample" :> SexGenotyperMetrics["karyotype"]
                 @@ "Karyotype case sample(second value)" :> SexGenotyperMetrics["confidence"])
        /\ cnv_headers["number of segments"].title = "Segments"
        /\ cnv_headers["Karyotype case sample"].title = "Kar"
        /\ cnv_headers["Karyotype case sample(second value)"].title = "KarConf"
        /\ log_data = log_at_start

\* C13 witness: the scenario has happened and the table has its sample.
C13_Witness == Scenario /\ DOMAIN cnv_data = {"S1"} /\ Cardinality(DOMAIN cnv_data["S1"]) = 3

\* The step just taken handled a CNV SUMMARY line whose metric key the
\* catalog does not have.
UnknownMetricStep ==
    SummaryStep /\ Handled.metric_id \notin DOMAIN METRICS(CNV_SUMMARY_SECTION)

\* C14 as stated: the header of an unknown metric has the metric name (as
\* the line spells it, or normalised) as title and description, and the
\* step records a diagnostic.
C14_UnknownMetricReported ==
    [][UnknownMetricStep =>
        /\ Handled.metric_id \in DOMAIN cnv_headers'
        /\ cnv_headers'[Handled.metric_id].title \in {Handled.metric, Handled.metric_id}
        /\ cnv_headers'[Handled.metric_id].description \in {Handled.metric, Handled.metric_id}
        /\ log_data' # log_data]_vars

\* C14 amended: the header of an unknown metric has the normalised metric
\* key as title and description; the diagnostics keep their three
\* categories, and the step records nothing but the unusual values of the
\* line: nothing at all when its values are numbers.
C14_UnknownMetricHeader ==
    [][UnknownMetricStep =>
        /\ Handled.metric_id \in DOMAIN cnv_headers'
        /\ cnv_headers'[Handled.metric_id].title = Handled.metric_id
        /\ cnv_headers'[Handled.metric_id].description = Handled.metric_id
        /\ DOMAIN log_data' = {"invalid_file_names", "invalid_file_lines", "unusual_values"}
        /\ log_data'.invalid_file_names = log_data.invalid_file_names
        /\ log_data'.invalid_file_lines = log_data.invalid_file_lines
        /\ (Handled.v1.tag # "str" /\ (Handled.value2 = "" \/ Handled.v2.tag # "str")) =>
               log_data' = log_data
        /\ last_line' = "CNV SUMMARY,,Custom  Count,7" =>
               /\ cnv_headers'["custom count"].title = "custom count"
               /\ cnv_headers'["custom count"].title # Handled.metric
               /\ log_data' = log_data]_vars

\* C14 witness: the line with the unknown metric "Custom  Count" and the
\* value 7 has been read: its header is the fallback, and no diagnostic
\* exists.
C14_Witness ==
    /\ AfterLine
    /\ last_line = "CNV SUMMARY,,Custom  Count,7"
    /\ "custom count" \notin DOMAIN METRICS(CNV_SUMMARY_SECTION)
    /\ data["custom count"] = IntVal(7)
    /\ cnv_headers["custom count"] =
           [title |-> "custom count", description |-> "custom count", order_priority |-> <<>>]
    /\ log_data = EmptyLog

\* C15 as stated: the record of a sample, in either module's table, is the
\* record the parser returned for one file; it never holds values of two
\* files of the same identity.
C15_NoMergedRecord ==
    /\ \A n \in DOMAIN cnv_data : \E fh \in DOMAIN returned : cnv_data[n] = returned[fh]
    /\ \A c \in DOMAIN sample_by_phenotype :
          \E fh \in DOMAIN cov_returned : sample_by_phenotype[c] = cov_returned[fh]

\* C16 as stated: every run of add_cnv_metrics starts from an empty
\* diagnostics log, so the log a run hands to the report holds only items
\* of that run's files, none carried over from an earlier run.
C16_LogEmptyAtStart ==
    /\ pc # "idle" => log_at_start = EmptyLog
    /\ \A i \in 1..Len(report) :
          \A root \in DOMAIN report[i].invalid_file_names :
             \A j \in 1..Len(report[i].invalid_file_names[root]) :
                \E fh \in seen :
                   fh.root = root /\ fh.fn = report[i].invalid_file_names[root][j]

\* The text of a file name before ".cnv_metrics.csv".
Prefix(fn) == SubSeq(fn, 1, Len(fn) - Len(CnvSuffix))

HasPrefix(fn) == EndsWith(fn, CnvSuffix) /\ Len(fn) > Len(CnvSuffix)

\* C17 as stated: a step that hands the parser a file named
\* "<prefix>.cnv_metrics.csv" with any non-empty prefix, a prefix holding a
\* dot included, enters the parser for that file with the prefix as its
\* sample and records no invalid file name.
C17_PrefixAccepted ==
    [][\A fh \in Taken : HasPrefix(fh.fn) =>
        /\ pc' = "parsing"
        /\ file' = fh
        /\ Name[fh.fn].sample = Prefix(fh.fn)
        /\ log_data' = log_data]_vars

\* The section field of a line with its letter case and its surrounding and
\* inner whitespace set aside.
SectionRead(line) == Lower(Strip(CollapseWS(Fields(line)[1])))

\* Lines that are well formed but for the case or whitespace of the section.
SectionVariant ==
    [line \in AllLines |->
        LET f == Fields(line)
        IN  /\ Len(f) \in {4, 5}
            /\ SectionRead(line) \in {Lower(SEX_GENOTYPER_SECTION), Lower(CNV_SUMMARY_SECTION)}
            /\ f[2] = ""
            /\ f[3] # ""
            /\ f[4] # ""]

\* C18 as stated: a line that is well formed but for the letter case or the
\* whitespace of its section literal is parsed as a line of that section:
\* the file has a valid line, the record gains an entry and the line is not
\* recorded as invalid.
C18_SectionTolerant ==
    [][(pc = "parsing" /\ LineStep /\ SectionVariant[last_line']) =>
        /\ success' = 1
        /\ DOMAIN data' # {}
        /\ InvalidLines(log_data', file) = InvalidLines(log_data, file)]_vars

\* Lines whose section field is one of the two literals, letter for letter.
SectionExact ==
    [line \in AllLines |->
        Fields(line)[1] \in {SEX_GENOTYPER_SECTION, CNV_SUMMARY_SECTION}]

\* C18 amended: the section literal is read letter for letter. A line that
\* is well formed with the exact literal is parsed as a line of its section;
\* one that differs from it in the letter case or the whitespace of the
\* section is not: it changes neither the record, the registry nor the
\* success of the file, and is appended to the invalid lines of the file.
C18_SectionExact ==
    [][(pc = "parsing" /\ LineStep /\ SectionVariant[last_line']) =>
        IF SectionExact[last_line']
        THEN /\ success' = 1
             /\ DOMAIN data' # {}
             /\ InvalidLines(log_data', file) = InvalidLines(log_data, file)
        ELSE /\ success' = success
             /\ data' = data
             /\ cnv_headers' = cnv_headers
             /\ InvalidLines(log_data', file) =
                    Append(InvalidLines(log_data, file), last_line')]_vars

\* C18 witness: the three variants of a section literal were the lines of a
\* file; none was parsed and all three are its invalid lines.
C18_Witness ==
    /\ AfterLine
    /\ line_no = 3
    /\ lines_read = << "cnv summary,,Number of Segments,17",
                       "CNV  SUMMARY,,Number of Segments,17",
                       " SEX GENOTYPER,,S1,XX,0.99" >>
    /\ \A i \in 1..3 : SectionVariant[lines_read[i]] /\ ~SectionExact[lines_read[i]]
    /\ success = 0
    /\ data = Empty
    /\ InvalidLines(log_data, file) = lines_read

\* The names on the SEX GENOTYPER lines of the input sets, and the header
\* keys a panel sample of such a name is given.
PanelNames ==
    { Line[l].metric :
        l \in { x \in AllLines :
                  Line[x].matches /\ Line[x].section = SEX_GENOTYPER_SECTION } }

PanelHeaderKeys ==
    { PanelSampleKey(n) : n \in PanelNames } \cup
    { PanelSampleKey(n) \o V2 : n \in PanelNames }

PanelHeaders(headers) == DOMAIN headers \cap PanelHeaderKeys

\* No SEX GENOTYPER line of the file in progress has been read yet.
NoGenotyperYet ==
    \A i \in 1..Len(lines_read) :
       ~(Line[lines_read[i]].matches /\ Line[lines_read[i]].section = SEX_GENOTYPER_SECTION)

GenotyperLineStep ==
    pc = "parsing" /\ LineStep /\ Handled.matches /\ Handled.section = SEX_GENOTYPER_SECTION

\* The key C19 gives to the SEX GENOTYPER line just handled.
StatedKey == IF NoGenotyperYet THEN "Karyotype case sample"
             ELSE "Karyotype panel sample " \o Handled.metric

\* C19: the first SEX GENOTYPER line of a file is stored under the fixed key
\* "Karyotype case sample" and every later one under "Karyotype panel sample
\* <name>", leaving the other entries of the record alone; over all files
\* and runs the order priorities of the panel-sample headers are at least
\* RESERVED_START, pairwise distinct, and a newly registered panel header
\* is numbered above every panel header registered before it.
C19_PanelSamples ==
    [][/\ GenotyperLineStep =>
            /\ StatedKey \in DOMAIN data'
            /\ data'[StatedKey] = StrVal(Handled.value1)
            /\ \A k \in DOMAIN data' \ {StatedKey, StatedKey \o V2} :
                  k \in DOMAIN data /\ data'[k] = data[k]
            /\ \A k \in DOMAIN data : k \in DOMAIN data'
            /\ ~NoGenotyperYet => {StatedKey, StatedKey \o V2} \subseteq PanelHeaders(cnv_headers')
       /\ \A k \in PanelHeaders(cnv_headers') :
             /\ cnv_headers'[k].order_priority[1] >= RESERVED_START
             /\ \A j \in PanelHeaders(cnv_headers') \ {k} :
                   cnv_headers'[j].order_priority # cnv_headers'[k].order_priority
       /\ SameRun =>
             \A k \in PanelHeaders(cnv_headers') \ PanelHeaders(cnv_headers) :
                \A j \in PanelHeaders(cnv_headers) :
                   cnv_headers[j].order_priority[1] < cnv_headers'[k].order_priority[1]]_vars

\* C19 witness: two files were parsed, each with a case sample and a panel
\* sample; the first panel sample is numbered from RESERVED_START and the
\* one of the second file after it.
C19_Witness ==
    /\ pc = "loop"
    /\ Cardinality(DOMAIN returned) = 2
    /\ \A fh \in DOMAIN returned :
          \E n \in {"P1", "P2"} :
             {"Karyotype case sample", "Karyotype panel sample " \o n} \subseteq DOMAIN returned[fh]
    /\ {"Karyotype panel sample P1", "Karyotype panel sample P2"} \subseteq DOMAIN cnv_headers
    /\ cnv_headers["Karyotype panel sample P1"].order_priority = <<RESERVED_START, 0>>
    /\ cnv_headers["Karyotype panel sample P1" \o V2].order_priority = <<RESERVED_START + 1, 0>>
    /\ cnv_headers["Karyotype panel sample P2"].order_priority = <<RESERVED_START + 2, 0>>
    /\ cnv_headers["Karyotype panel sample P2" \o V2].order_priority = <<RESERVED_START + 3, 0>>

\* C20 as stated: every key of the data mapping parse_coverage_metrics has
\* built, and of every mapping it returned, has an entry in
\* table_headers_sample_by_phenotype; a second value is therefore never
\* stored under a key without a header.
C20_DataKeysHaveHeaders ==
    /\ cov_pc = "parsing" =>
          DOMAIN cov_data \subseteq DOMAIN table_headers_sample_by_phenotype
    /\ \A fh \in DOMAIN cov_returned :
          DOMAIN cov_returned[fh] \subseteq DOMAIN table_headers_sample_by_phenotype

\* Lines with the exact section literal, an empty second field and more
\* non-empty fields than the grammar has: a metric or a value holds a comma.
ExtraComma ==
    [line \in AllLines |->
        LET f == Fields(line)
        IN  /\ Len(f) > 5
            /\ f[1] \in {SEX_GENOTYPER_SECTION, CNV_SUMMARY_SECTION}
            /\ f[2] = ""
            /\ \A i \in 3..Len(f) : f[i] # ""]

\* C21 as stated: a line with an additional comma in its metric or value
\* text is parsed as a valid line, and no invalid line is recorded for it.
C21_CommaTruncated ==
    [][(pc = "parsing" /\ LineStep /\ ExtraComma[last_line']) =>
        /\ success' = 1
        /\ DOMAIN data' # {}
        /\ InvalidLines(log_data', file) = InvalidLines(log_data, file)]_vars

\* C21 amended: LINE_RGX reads at most five fields.  A line with more, so
\* with a comma too many, is not parsed: it changes neither the record, the
\* registry nor the success of the file and is appended to the invalid
\* lines.  A line of five fields is read by position, whatever a comma was
\* meant to be part of: its third field is the metric, its fourth the first
\* value and its fifth the second value.  The coverage line pattern takes
\* everything after the first value as the second value, commas included.
C21_CommaRejected ==
    [][/\ (pc = "parsing" /\ LineStep /\ ExtraComma[last_line']) =>
            /\ success' = success
            /\ data' = data
            /\ cnv_headers' = cnv_headers
            /\ InvalidLines(log_data', file) =
                   Append(InvalidLines(log_data, file), last_line')
       /\ (pc = "parsing" /\ LineStep /\ last_line' = "CNV SUMMARY,,Custom,metric,17") =>
            /\ success' = 1
            /\ data'["custom"] = StrVal("metric")
            /\ data'["custom" \o V2] = FloatVal(17, 0)
            /\ InvalidLines(log_data', file) = InvalidLines(log_data, file)
       /\ CovLine["COVERAGE SUMMARY,,Aligned bases,100,5,extra"].matches
       /\ CovLine["COVERAGE SUMMARY,,Aligned bases,100,5,extra"].value1 = "100"
       /\ CovLine["COVERAGE SUMMARY,,Aligned bases,100,5,extra"].value2 = "5,extra"]_vars

\* C21 witness: a file held a line of six fields and a line of five with a
\* comma in its metric; the first is its invalid line, the second gave the
\* record its entries.
C21_Witness ==
    /\ AfterLine
    /\ lines_read = << "CNV SUMMARY,,Number of Segments,17,42,extra",
                       "CNV SUMMARY,,Custom,metric,17" >>
    /\ ExtraComma[lines_read[1]]
    /\ InvalidLines(log_data, file) = << lines_read[1] >>
    /\ DOMAIN data = {"custom", "custom" \o V2}
    /\ success = 1

\* The files listed under cleaned name n, as a set.
FilesOf(samples, n) == {samples[n][i] : i \in 1..Len(samples[n])}

\* What C22 says of the loop of add_cnv_metrics: a file returned with
\* success is appended to the list of its cleaned name and its record
\* replaces the entry of that name; nothing else changes the list or the
\* table before the loop ends; so between files each name lists, once each,
\* the files that yielded it and holds the record of the last of them.
LoopKeepsLastAndLists ==
    /\ (ReturnStep /\ success = 1) =>
          /\ all_samples'[Name[file.fn].cleaned] =
                 Append(Get(all_samples, Name[file.fn].cleaned, <<>>), file)
          /\ cnv_data'[Name[file.fn].cleaned] = data
          /\ \A n \in DOMAIN all_samples \ {Name[file.fn].cleaned} :
                 all_samples'[n] = all_samples[n] /\ cnv_data'[n] = cnv_data[n]
    /\ (SameRun /\ ~(ReturnStep /\ success = 1)) => all_samples' = all_samples
    /\ pc' = "loop" =>
          /\ DOMAIN cnv_data' = DOMAIN all_samples'
          /\ \A n \in DOMAIN all_samples' :
                /\ FilesOf(all_samples', n) = {fh \in DOMAIN returned' : Name[fh.fn].cleaned = n}
                /\ Len(all_samples'[n]) = Cardinality(FilesOf(all_samples', n))
                /\ cnv_data'[n] = returned'[all_samples'[n][Len(all_samples'[n])]]

MatchingLines == {l \in AllLines : Line[l].matches}

\* The keys an unusual value can be recorded under, each with what
\* make_metric_id makes of it.
Normalized ==
    [r \in {Line[l].metric : l \in MatchingLines} \cup
           {Line[l].metric \o V2 : l \in MatchingLines} |-> make_metric_id(r)]

\* The pairs of a diagnostic key and the record key of the value it reports:
\* the raw metric with the metric key, and the raw metric + V2 with the
\* metric key + V2.
ReportedAs ==
    {<<Line[l].metric, Line[l].metric_id>> : l \in MatchingLines} \cup
    {<<Line[l].metric \o V2, Line[l].metric_id \o V2>> : l \in MatchingLines}

\* The record keys of the SEX GENOTYPER section.
GenotyperKeys == {CaseSampleKey, CaseSampleKey \o V2} \cup PanelHeaderKeys

\* The CNV SUMMARY entries of a record that hold text.
TextEntries(record) ==
    {k \in DOMAIN record \ GenotyperKeys : record[k].tag = "str"}

\* C24 as stated: every CNV SUMMARY entry that holds text, in the record in
\* progress and in every record returned, has an unusual value recorded for
\* its directory and file under a key that normalizes to the entry's key.
C24_TextEntriesNormalize ==
    /\ pc = "parsing" =>
          \A k \in TextEntries(data) :
             \E r \in DOMAIN Unusual(log_data, file) : Normalized[r] = k
    /\ \A fh \in DOMAIN returned :
          \A k \in TextEntries(returned[fh]) :
             \E r \in DOMAIN Unusual(log_data, fh) : Normalized[r] = k

\* C24 amended: every CNV SUMMARY entry that holds text has an unusual value
\* recorded for its directory and file: a first value under the raw metric
\* name, which normalizes to the entry's key, and a second value under the
\* raw metric name + V2, whose entry key is the normalized metric + V2.
C24_TextEntriesReported ==
    /\ pc = "parsing" =>
          \A k \in TextEntries(data) :
             \E r \in DOMAIN Unusual(log_data, file) : <<r, k>> \in ReportedAs
    /\ \A fh \in DOMAIN returned :
          \A k \in TextEntries(returned[fh]) :
             \E r \in DOMAIN Unusual(log_data, fh) : <<r, k>> \in ReportedAs

\* C24 witness: a file was returned with a text second value of a metric
\* whose raw name ends with a blank; the diagnostic is under the raw name
\* + V2, which does not normalize to the key of the entry.
C24_Witness ==
    /\ pc = "loop"
    /\ \E fh \in DOMAIN returned :
          /\ "custom metric" \o V2 \in TextEntries(returned[fh])
          /\ DOMAIN Unusual(log_data, fh) = {"Custom metric " \o V2}
          /\ Normalized["Custom metric " \o V2] # "custom metric" \o V2
          /\ <<"Custom metric " \o V2, "custom metric" \o V2>> \in ReportedAs

\* Line i of the sequence is a valid SEX GENOTYPER line.
IsGenotyper(lines, i) ==
    Line[lines[i]].matches /\ Line[lines[i]].section = SEX_GENOTYPER_SECTION

\* The metric line i of the sequence is about: its section with its
\* normalized metric name, the case sample being the first SEX GENOTYPER
\* line whatever its name.
MetricOf(lines, i) ==
    IF ~IsGenotyper(lines, i) THEN <<CNV_SUMMARY_SECTION, Line[lines[i]].metric_id>>
    ELSE IF \A j \in 1..(i - 1) : ~IsGenotyper(lines, j)
         THEN <<SEX_GENOTYPER_SECTION, "case sample", "">>
         ELSE <<SEX_GENOTYPER_SECTION, "panel sample", Line[lines[i]].metric>>

\* The base key of line i of the sequence.
BaseKey(lines, i) ==
    IF ~IsGenotyper(lines, i) THEN Line[lines[i]].metric_id
    ELSE IF \A j \in 1..(i - 1) : ~IsGenotyper(lines, j)
         THEN "Karyotype case sample"
         ELSE "Karyotype panel sample " \o Line[lines[i]].metric

\* The record keys line i of the sequence writes.
KeysWritten(lines, i) ==
    IF ~Line[lines[i]].matches THEN {}
    ELSE {BaseKey(lines, i)} \cup
         (IF Line[lines[i]].value2 # "" THEN {BaseKey(lines, i) \o V2} ELSE {})

\* C25 as stated: two valid lines of a file that are about different
\* metrics never write the same record key; the key of a second value is
\* never the base key of another metric or panel sample.
C25_KeysCollisionFree ==
    pc = "parsing" =>
        \A i, j \in 1..Len(lines_read) :
            (/\ i < j
             /\ Line[lines_read[i]].matches
             /\ Line[lines_read[j]].matches
             /\ MetricOf(lines_read, i) # MetricOf(lines_read, j))
            => KeysWritten(lines_read, i) \cap KeysWritten(lines_read, j) = {}

====
